---- MODULE Spec2Model ----
(***************************************************************************)
(* PulseaDB (src/src/base/Database.js): the path-addressed tree, the value *)
(* codec, the table engine and the row operations, as a state machine.     *)
(*                                                                         *)
(* JavaScript values are records [type, num, str, fields]; the tree        *)
(* this.data is a function from paths (sequences of segments) to nodes,    *)
(* every map node keeping its keys in insertion order, as a JavaScript     *)
(* object does.                                                            *)
(***************************************************************************)
EXTENDS Integers, Sequences, FiniteSets

VARIABLES
    data,      \* this.data, the in-memory tree
    file,      \* the tree the database file holds, as the last save wrote it
    autoSave,  \* this.autoSave
    last,      \* the last call: its name, arguments and outcome
    fileLock,  \* this.fileLock.get(this.filePath)
    tempFile,  \* the file this.filePath + '.tmp'
    tasks,     \* the calls in flight: where each is, and the content it writes
    had,       \* the trees this.data has been, as the steps of tasks record them
    initialized,  \* whether the promise this.initialized of the constructor has resolved
    backups,   \* the files of this.backupDir: the content, and the tree it was made of
    now        \* the time the next `new Date()` gives

(* What the steps of the calls in flight change besides data and file. *)
ioVars == <<fileLock, tempFile, tasks, had>>

(* The backups directory and the clock *)
dirVars == <<backups, now>>

vars == <<data, file, autoSave, last, fileLock, tempFile, tasks, had, initialized, backups, now>>

(* Bounds of the model. *)
MaxNum == 1
MaxRows == 2
(* The backups a behaviour begins, and the time of the first *)
MaxStamps == 4
FirstStamp == 8

(***************************************************************************)
(* JavaScript values                                                       *)
(***************************************************************************)
NoFields == [c \in {} |-> 0]

NumV(n) == [type |-> "number", num |-> n, str |-> "", fields |-> NoFields]
NaNV == [type |-> "number", num |-> 0, str |-> "NaN", fields |-> NoFields]
StrV(s) == [type |-> "string", num |-> 0, str |-> s, fields |-> NoFields]
BoolV(b) == [type |-> "boolean", num |-> IF b THEN 1 ELSE 0, str |-> "", fields |-> NoFields]
NullV == [type |-> "null", num |-> 0, str |-> "", fields |-> NoFields]
UndefV == [type |-> "undefined", num |-> 0, str |-> "", fields |-> NoFields]
ObjV(f) == [type |-> "object", num |-> 0, str |-> "", fields |-> f]
(* Object.prototype.constructor, what obj["constructor"] reads when obj has
   no own property of that name. *)
FnV == [type |-> "function", num |-> 0, str |-> "Object", fields |-> NoFields]
(* A raw container of this.data handed out by get (its leaves still tokens),
   and a table's _meta object handed out by get. *)
ContainerV == [type |-> "object", num |-> 0, str |-> "[container]", fields |-> NoFields]
MetaV == [type |-> "object", num |-> 0, str |-> "[meta]", fields |-> NoFields]
(* Object.entries of a token string, decrypted entry by entry: an object of
   the token's characters. *)
CharsV == [type |-> "object", num |-> 0, str |-> "[characters]", fields |-> NoFields]

(* typeof value *)
TypeOf(v) == IF v.type = "null" THEN "object" ELSE v.type

IsNaN(v) == v.type = "number" /\ v.str = "NaN"

(* !!value *)
Truthy(v) ==
    CASE v.type = "number" -> v.num # 0 /\ ~IsNaN(v)
      [] v.type = "string" -> v.str # ""
      [] v.type = "boolean" -> v.num = 1
      [] v.type \in {"null", "undefined"} -> FALSE
      [] OTHER -> TRUE

(* Property names every plain object inherits from Object.prototype: the
   `in` operator finds them, Object.keys and Object.entries do not. *)
ObjectPrototypeKeys == {"constructor"}

(* key in obj, for an object with the given own keys *)
JsIn(k, ownKeys) == k \in ownKeys \/ k \in ObjectPrototypeKeys

(* obj[key] for an object value *)
JsRead(obj, k) ==
    IF k \in DOMAIN obj.fields THEN obj.fields[k]
    ELSE IF k \in ObjectPrototypeKeys THEN FnV
    ELSE UndefV

(***************************************************************************)
(* Text: String(value), JSON.stringify, JSON.parse                         *)
(***************************************************************************)
Digit == <<"0", "1", "2", "3", "4", "5", "6", "7", "8", "9">>

RECURSIVE NumToStr(_)
NumToStr(n) ==
    IF n < 0 THEN "-" \o NumToStr(-n)
    ELSE IF n < 10 THEN Digit[n + 1]
    ELSE NumToStr(n \div 10) \o Digit[(n % 10) + 1]

(* String(value) of a primitive *)
StringOf(v) ==
    CASE v.type = "number" -> IF IsNaN(v) THEN "NaN" ELSE NumToStr(v.num)
      [] v.type = "string" -> v.str
      [] v.type = "boolean" -> IF v.num = 1 THEN "true" ELSE "false"
      [] v.type = "null" -> "null"
      [] v.type = "undefined" -> "undefined"
      [] OTHER -> "[object Object]"

(* The order in which the model lists an object's own keys. *)
KeyOrder == <<"id", "a", "name", "age", "gid", "constructor", "zzz">>

(* JSON.stringify of a primitive inside an object (strings here hold no
   character that JSON escapes). *)
JsonPrim(v) ==
    CASE v.type = "number" -> IF IsNaN(v) THEN "null" ELSE NumToStr(v.num)
      [] v.type = "string" -> "\"" \o v.str \o "\""
      [] v.type = "boolean" -> IF v.num = 1 THEN "true" ELSE "false"
      [] OTHER -> "null"

RECURSIVE JsonMembers(_, _, _)
JsonMembers(f, i, first) ==
    IF i > Len(KeyOrder) THEN ""
    ELSE LET k == KeyOrder[i] IN
         IF k \in DOMAIN f /\ f[k].type \notin {"undefined", "function"}
         THEN (IF first THEN "" ELSE ",") \o "\"" \o k \o "\":" \o JsonPrim(f[k])
              \o JsonMembers(f, i + 1, FALSE)
         ELSE JsonMembers(f, i + 1, first)

(* JSON.stringify(value): a member whose value is undefined is left out. *)
JSONStringify(v) ==
    IF v.type = "object" THEN "{" \o JsonMembers(v.fields, 1, TRUE) \o "}"
    ELSE JsonPrim(v)

Numbers == 0..(MaxNum + 1)

(* The objects the model stores outside tables. *)
Objects == {ObjV([a |-> NumV(1)])}

(* The values whose JSON text can occur in the model. *)
JsonUniverse == {NumV(n) : n \in Numbers} \cup {BoolV(TRUE), BoolV(FALSE), NullV} \cup Objects

ParseFailed == [type |-> "SyntaxError", num |-> 0, str |-> "", fields |-> NoFields]

ParsedFrom(hits) == IF hits = {} THEN ParseFailed ELSE CHOOSE v \in hits : TRUE

(* JSON.parse(text): the value whose JSON text it is, or a SyntaxError. *)
JSONParse(text) == ParsedFrom({v \in JsonUniverse : JSONStringify(v) = text})

(***************************************************************************)
(* Value codec                                                             *)
(***************************************************************************)
(* A stored leaf: tok = TRUE is the string K9(base64(deflate(text))) with
   text = val.str, tok = FALSE is the JavaScript value val stored as is. *)
Token(text) == [tok |-> TRUE, val |-> StrV(text)]
Raw(v) == [tok |-> FALSE, val |-> v]

encryptValue(value) ==
    IF value.type \in {"null", "undefined"} THEN Raw(value)
    ELSE LET stringValue == IF TypeOf(value) = "object" THEN JSONStringify(value)
                            ELSE StringOf(value)
         IN Token(stringValue)

(* try { return JSON.parse(decodedValue) } catch { return decodedValue } *)
ParsedOr(parsed, decodedValue) == IF parsed = ParseFailed THEN StrV(decodedValue) ELSE parsed

decryptValue(stored) ==
    IF ~stored.tok
    THEN (* !value, not a string, or a string that is no token: returned as is *)
         stored.val
    ELSE ParsedOr(JSONParse(stored.val.str), stored.val.str)

(***************************************************************************)
(* The tree this.data                                                      *)
(***************************************************************************)
NoMeta == [columns |-> <<>>, validations |-> <<>>, indexes |-> <<>>,
           relations |-> <<>>, rowCount |-> 0]

MapNode(ks) == [kind |-> "map", keys |-> ks, tok |-> FALSE, val |-> UndefV, meta |-> NoMeta]
LeafNode(stored) == [kind |-> "leaf", keys |-> <<>>, tok |-> stored.tok, val |-> stored.val,
                     meta |-> NoMeta]
MetaNode(m) == [kind |-> "meta", keys |-> <<>>, tok |-> FALSE, val |-> UndefV, meta |-> m]

StoredOf(node) == [tok |-> node.tok, val |-> node.val]

(* this.data = {} *)
EmptyTree == [p \in {<<>>} |-> MapNode(<<>>)]

Range(s) == {s[i] : i \in 1..Len(s)}

IsPrefix(p, q) == Len(p) <= Len(q) /\ SubSeq(q, 1, Len(p)) = p

Parent(p) == SubSeq(p, 1, Len(p) - 1)

LastSeg(p) == p[Len(p)]

RECURSIVE Without(_, _)
Without(s, x) ==
    IF s = <<>> THEN <<>>
    ELSE IF s[1] = x THEN Without(Tail(s), x)
    ELSE <<s[1]>> \o Without(Tail(s), x)

(* Own keys of the map at p, in insertion order. *)
KeysAt(tree, p) == tree[p].keys

(* delete obj[key], obj the map at Parent(p): the subtree at p goes. *)
RemoveAt(tree, p) ==
    IF p \notin DOMAIN tree THEN tree
    ELSE [q \in {r \in DOMAIN tree : ~IsPrefix(p, r)} |->
            IF q = Parent(p) THEN MapNode(Without(tree[q].keys, LastSeg(p)))
            ELSE tree[q]]

(* obj[key] = node, obj the map at Parent(p): whatever was at p is replaced,
   a new key goes to the end of obj's keys. *)
PutAt(tree, p, node) ==
    LET kept == {r \in DOMAIN tree : ~IsPrefix(p, r)}
        par == Parent(p)
    IN [q \in kept \cup {p} |->
          IF q = p THEN node
          ELSE IF q = par /\ p \notin DOMAIN tree
               THEN MapNode(Append(tree[q].keys, LastSeg(p)))
          ELSE tree[q]]

(* this.data[tableName]?._meta: "meta" for a metadata object, "string" for a
   token stored under _meta (truthy, but no object), "none" when falsy. *)
MetaKind(tree, tableName) ==
    LET p == <<tableName, "_meta">> IN
    IF p \notin DOMAIN tree THEN "none"
    ELSE IF tree[p].kind = "meta" THEN "meta"
    ELSE IF tree[p].kind = "leaf" /\ tree[p].tok THEN "string"
    ELSE IF tree[p].kind = "map" THEN "object"
    ELSE "none"

MetaFields == {"columns", "validations", "indexes", "relations", "rowCount"}

MetaOf(tree, tableName) == tree[<<tableName, "_meta">>].meta

(* The row keys of a table: Object.keys(table).filter(k => k !== '_meta') *)
RowKeys(tree, tableName) == Without(KeysAt(tree, <<tableName>>), "_meta")

(* What an operation hands back: the tree after it, whether it completed,
   the error it threw otherwise, and the value it returned. *)
Done(tree, ret) == [tree |-> tree, ok |-> TRUE, err |-> "", ret |-> ret]
Threw(tree, err) == [tree |-> tree, ok |-> FALSE, err |-> err, ret |-> UndefV]

(* The token string itself, as a JavaScript value. *)
CipherV(stored) == StrV("k9:" \o stored.val.str)

(* decryptValue(current) for the node reached by a path: a container is no
   string and comes back as it is. *)
DecryptNode(tree, p) ==
    CASE tree[p].kind = "leaf" -> decryptValue(StoredOf(tree[p]))
      [] tree[p].kind = "meta" -> MetaV
      [] OTHER -> ContainerV

(* The node at p as it is stored, undecrypted. *)
RawNode(tree, p) ==
    CASE tree[p].kind = "leaf" /\ tree[p].tok -> CipherV(StoredOf(tree[p]))
      [] tree[p].kind = "leaf" -> tree[p].val
      [] tree[p].kind = "meta" -> MetaV
      [] OTHER -> ContainerV

(* The decrypted copy of the row at p: one decryptValue per own entry. *)
DecryptRow(tree, p) ==
    ObjV([f \in Range(KeysAt(tree, p)) |-> DecryptNode(tree, p \o <<f>>)])

(* get's walk, lines 304-314, from the node at p over keys[i..]:
   the default once a key is absent or the node is null/undefined, a
   TypeError when `in` is applied to a token (a string primitive). *)
RECURSIVE GetWalk(_, _, _, _, _)
GetWalk(tree, p, keys, i, defaultValue) ==
    IF i > Len(keys)
    THEN Done(tree, DecryptNode(tree, p))
    ELSE LET node == tree[p]
             k == keys[i]
         IN CASE node.kind = "leaf" /\ node.tok -> Threw(tree, "TypeError")
              [] node.kind = "leaf" /\ ~node.tok ->
                    IF node.val.type \in {"null", "undefined"}
                    THEN Done(tree, defaultValue)
                    ELSE Threw(tree, "TypeError")
              [] node.kind = "meta" ->
                    IF k \in ObjectPrototypeKeys /\ i = Len(keys) THEN Done(tree, FnV)
                    ELSE IF k = "rowCount" /\ i = Len(keys)
                    THEN Done(tree, NumV(node.meta.rowCount))
                    ELSE IF k = "rowCount" THEN Threw(tree, "TypeError")
                    ELSE IF k \in MetaFields /\ i = Len(keys) THEN Done(tree, ContainerV)
                    ELSE Done(tree, defaultValue)
              [] OTHER ->
                    IF k \in Range(node.keys)
                    THEN GetWalk(tree, p \o <<k>>, keys, i + 1, defaultValue)
                    ELSE IF k \in ObjectPrototypeKeys
                    THEN (* an inherited function: no key of the model is in it *)
                         IF i = Len(keys) THEN Done(tree, FnV)
                         ELSE Done(tree, defaultValue)
                    ELSE Done(tree, defaultValue)

(* get(key, defaultValue), key already split at the dots *)
get(tree, keys, defaultValue) ==
    IF Len(keys) = 2 /\ keys[2] # "" /\ MetaKind(tree, keys[1]) # "none"
    THEN IF keys[2] = "_meta"
         THEN Done(tree, RawNode(tree, <<keys[1], "_meta">>))
         ELSE IF <<keys[1], keys[2]>> \notin DOMAIN tree
              THEN Done(tree, defaultValue)
         ELSE IF tree[<<keys[1], keys[2]>>].kind = "leaf"
              THEN IF tree[<<keys[1], keys[2]>>].tok THEN Done(tree, CharsV)
                   ELSE Done(tree, defaultValue)
         ELSE Done(tree, DecryptRow(tree, <<keys[1], keys[2]>>))
    ELSE GetWalk(tree, <<>>, keys, 1, defaultValue)

(***************************************************************************)
(* Table metadata and validateTableData                                    *)
(***************************************************************************)
(* One entry of _meta.validations: type "" is no declared type, pattern ""
   no declared pattern. *)
Rule(col, type, hasMin, min, hasMax, max, pattern, hasEnum, enum) ==
    [col |-> col, type |-> type, hasMin |-> hasMin, min |-> min, hasMax |-> hasMax,
     max |-> max, pattern |-> pattern, hasEnum |-> hasEnum, enum |-> enum]

(* One entry of _meta.relations *)
Relation(col, table, column) == [col |-> col, table |-> table, column |-> column]

(* The strings of the model that /^[a-zA-Z][a-zA-Z0-9_]*$/ matches. *)
Identifiers == {"t", "u", "a", "b", "c", "id", "name", "age", "gid", "zzz", "constructor"}

IdentifierOK(s) == s \in Identifiers

(* new RegExp(pattern).test(s), for the patterns and strings of the model *)
RegExpTest(pattern, s) ==
    CASE pattern = "^[0-9]+$" -> s \in {NumToStr(n) : n \in Numbers}
      [] pattern = "^[A-Za-z]+$" -> s \in {"John", "abc", "true", "null", "NaN"}
      [] OTHER -> FALSE

(* a === b *)
StrictEq(a, b) == a = b /\ a.type \notin {"object", "function"} /\ ~IsNaN(a)

(* array.includes(v): SameValueZero *)
Includes(seq, v) == \E i \in 1..Len(seq) : seq[i] = v

(* The check of one column against its rule set, lines 690-724: "" when it
   passes, the error otherwise. *)
CheckRule(rules, value) ==
    IF value.type \in {"null", "undefined"} THEN "cannot be null or undefined"
    ELSE IF rules.type # "" /\ TypeOf(value) # rules.type THEN "Invalid type"
    ELSE IF rules.type = "number" /\ IsNaN(value) THEN "Invalid numeric value"
    ELSE IF rules.type = "number" /\ rules.hasMin /\ value.num < rules.min
         THEN "less than minimum"
    ELSE IF rules.type = "number" /\ rules.hasMax /\ value.num > rules.max
         THEN "greater than maximum"
    ELSE IF rules.pattern # "" /\ rules.type = "string"
            /\ ~RegExpTest(rules.pattern, StringOf(value))
         THEN "does not match pattern"
    ELSE IF rules.hasEnum /\ ~Includes(rules.enum, value) THEN "Must be one of"
    ELSE ""

(* The loop over Object.entries(meta.validations): the first error. *)
RECURSIVE CheckRules(_, _, _)
CheckRules(validations, row, i) ==
    IF i > Len(validations) THEN ""
    ELSE LET e == CheckRule(validations[i], JsRead(row, validations[i].col))
         IN IF e # "" THEN e ELSE CheckRules(validations, row, i + 1)

(* The loop over Object.entries(meta.relations), lines 727-735: a value
   other than undefined must make get(`${table}.${value}`) truthy. The
   values of the model hold no dot. *)
RECURSIVE CheckRelations(_, _, _, _)
RECURSIVE Related(_, _, _, _, _)
CheckRelations(tree, relations, row, i) ==
    IF i > Len(relations) THEN ""
    ELSE IF JsRead(row, relations[i].col).type = "undefined"
         THEN CheckRelations(tree, relations, row, i + 1)
    ELSE Related(get(tree, <<relations[i].table, StringOf(JsRead(row, relations[i].col))>>,
                     NullV),
                 tree, relations, row, i)

(* if (!relatedValue) throw ..., with relatedValue the outcome of the get *)
Related(relatedValue, tree, relations, row, i) ==
    IF ~relatedValue.ok THEN relatedValue.err
    ELSE IF ~Truthy(relatedValue.ret) THEN "Related record not found"
    ELSE CheckRelations(tree, relations, row, i + 1)

(* meta.columns.filter(col => !(col in data)) *)
missingColumns(meta, row) ==
    SelectSeq(meta.columns, LAMBDA col : ~JsIn(col, DOMAIN row.fields))

(* Object.keys(data).filter(col => !meta.columns.includes(col)) *)
extraColumns(meta, row) == {col \in DOMAIN row.fields : col \notin Range(meta.columns)}

(* Lines 689-735: the rules, then the relations *)
RulesThenRelations(ruleError, tree, meta, row) ==
    IF ruleError # "" THEN ruleError ELSE CheckRelations(tree, meta.relations, row, 1)

(* Lines 679-735, the checks against the table's metadata in their order *)
ValidateRow(tree, meta, row) ==
    IF missingColumns(meta, row) # <<>> THEN "Missing required columns"
    ELSE IF extraColumns(meta, row) # {} THEN "Unknown columns"
    ELSE RulesThenRelations(CheckRules(meta.validations, row, 1), tree, meta, row)

(* validateTableData(tableName, data): "" when the row is accepted, the
   error thrown otherwise. *)
validateTableData(tree, tableName, row) ==
    IF ~Truthy(row) THEN "Table name and data are required"
    ELSE IF TypeOf(row) # "object" THEN "Data must be an object"
    ELSE IF MetaKind(tree, tableName) = "none" THEN "does not exist"
    ELSE IF MetaKind(tree, tableName) # "meta" THEN "TypeError"
    ELSE ValidateRow(tree, MetaOf(tree, tableName), row)

(***************************************************************************)
(* set                                                                     *)
(***************************************************************************)
(* The encrypted copy of a row, lines 246-249: one token per own entry. *)
RECURSIVE PutFields(_, _, _, _)
PutFields(tree, p, row, i) ==
    IF i > Len(KeyOrder) THEN tree
    ELSE IF KeyOrder[i] \in DOMAIN row.fields
    THEN PutFields(PutAt(tree, p \o <<KeyOrder[i]>>,
                         LeafNode(encryptValue(row.fields[KeyOrder[i]]))), p, row, i + 1)
    ELSE PutFields(tree, p, row, i + 1)

(* A set that stores the row and leaves meta.rowCount as it was. *)
RecountRows_skipped(tree, tableName) == tree

(* meta.rowCount = Object.keys(this.data[tableName]).filter(k => k !== '_meta').length *)
RecountRows(tree, tableName) ==
    [tree EXCEPT ![<<tableName, "_meta">>] =
        MetaNode([@.meta EXCEPT !.rowCount = Len(RowKeys(tree, tableName))])]

(* set's walk over keys[i..], lines 263-274: missing containers are created
   on the way, the last key receives the token. `in` applied to a token or to
   null, and an assignment to a property of one, throw a TypeError; a key
   found only on Object.prototype leads out of this.data. No call of the
   model writes below a table's _meta object. *)
RECURSIVE SetWalk(_, _, _, _, _)
SetWalk(tree, p, keys, i, value) ==
    LET node == tree[p]
        k == keys[i]
    IN CASE node.kind = "leaf" -> Threw(tree, "TypeError")
         [] node.kind = "meta" -> Threw(tree, "unmodelled")
         [] OTHER ->
              IF i = Len(keys)
              THEN Done(PutAt(tree, p \o <<k>>, LeafNode(encryptValue(value))), value)
              ELSE IF k \in Range(node.keys)
              THEN SetWalk(tree, p \o <<k>>, keys, i + 1, value)
              ELSE IF k \in ObjectPrototypeKeys
              THEN Done(tree, value)
              ELSE SetWalk(PutAt(tree, p \o <<k>>, MapNode(<<>>)), p \o <<k>>, keys,
                           i + 1, value)

(* A row branch that stored the row before it looked at the outcome of
   validateTableData *)
StoreRow_unchecked(error, tree, keys, value) ==
    IF error # ""
    THEN Threw(RecountRows(PutFields(PutAt(tree, keys, MapNode(<<>>)), keys, value, 1),
                           keys[1]), error)
    ELSE Done(RecountRows(PutFields(PutAt(tree, keys, MapNode(<<>>)), keys, value, 1),
                          keys[1]), value)

(* Lines 244-259: the row is stored once validateTableData has not thrown,
   and the rows are counted anew. *)
StoreRow(error, tree, keys, value) ==
    IF error # "" THEN Threw(tree, error)
    ELSE Done(RecountRows(PutFields(PutAt(tree, keys, MapNode(<<>>)), keys, value, 1),
                          keys[1]), value)

(* set(key, value) without its trailing save, key already split at the dots *)
set(tree, keys, value) ==
    IF Len(keys) = 2 /\ keys[2] \notin {"", "_meta"} /\ MetaKind(tree, keys[1]) # "none"
    THEN StoreRow(validateTableData(tree, keys[1], value), tree, keys, value)
    ELSE SetWalk(tree, <<>>, keys, 1, value)

(***************************************************************************)
(* createTable, dropTable                                                  *)
(***************************************************************************)
(* !!value for the outcome of a get *)
Exists(r) == IF r.ok THEN Done(r.tree, BoolV(Truthy(r.ret))) ELSE r

(* tableExists(tableName): !!(await this.get(`${tableName}._meta`)) *)
tableExists(tree, tableName) == Exists(get(tree, <<tableName, "_meta">>, NullV))

(* [...new Set(columns)] *)
RECURSIVE Unique(_)
Unique(s) ==
    IF s = <<>> THEN <<>>
    ELSE LET front == Unique(SubSeq(s, 1, Len(s) - 1))
         IN IF s[Len(s)] \in Range(front) THEN front ELSE Append(front, s[Len(s)])

ValidTypes == {"string", "number", "boolean", "object"}

(* The loop over the relations of createTable, lines 634-647 *)
RECURSIVE CreateRelationsError(_, _, _, _)
CreateRelationsError(tree, uniqueColumns, relations, i) ==
    IF i > Len(relations) THEN ""
    ELSE LET r == relations[i] IN
         IF r.col \notin Range(uniqueColumns) THEN "Relation specified for non-existent column"
         ELSE IF r.table = "" \/ r.column = "" THEN "Invalid relation specification"
         ELSE IF MetaKind(tree, r.table) = "none" THEN "Related table does not exist"
         ELSE IF MetaKind(tree, r.table) # "meta" THEN "TypeError"
         ELSE IF r.column \notin Range(MetaOf(tree, r.table).columns)
              THEN "Related column does not exist"
         ELSE CreateRelationsError(tree, uniqueColumns, relations, i + 1)

(* The loop over the validations of createTable, lines 618-625 *)
RECURSIVE CreateValidationsError(_, _, _)
CreateValidationsError(uniqueColumns, validations, i) ==
    IF i > Len(validations) THEN ""
    ELSE IF validations[i].col \notin Range(uniqueColumns)
         THEN "Validation rule specified for non-existent column"
    ELSE IF validations[i].type \notin ValidTypes \cup {""} THEN "Invalid type for column"
    ELSE CreateValidationsError(uniqueColumns, validations, i + 1)

(* Lines 611-647: the checks that follow the tableExists check *)
ColumnsError(tree, uniqueColumns, validations, indexes, relations) ==
    LET validationsError == CreateValidationsError(uniqueColumns, validations, 1)
    IN IF \E c \in Range(uniqueColumns) : ~IdentifierOK(c) THEN "Invalid column name"
       ELSE IF validationsError # "" THEN validationsError
       ELSE IF \E x \in Range(indexes) : x \notin Range(uniqueColumns)
            THEN "Index specified for non-existent column"
       ELSE CreateRelationsError(tree, uniqueColumns, relations, 1)

(* A createTable that goes on whatever tableExists has answered. *)
ExistsError_ignored(exists, tree, uniqueColumns, validations, indexes, relations) ==
    ColumnsError(tree, uniqueColumns, validations, indexes, relations)

(* Lines 607-609, exists being the outcome of tableExists(name) *)
ExistsError(exists, tree, uniqueColumns, validations, indexes, relations) ==
    IF ~exists.ok THEN exists.err
    ELSE IF Truthy(exists.ret) THEN "already exists"
    ELSE ColumnsError(tree, uniqueColumns, validations, indexes, relations)

(* The checks of createTable in the order of the code: "" when all pass. *)
createTableError(tree, name, columns, validations, indexes, relations) ==
    IF name = "" THEN "Table name is required"
    ELSE IF columns = <<>> THEN "Columns must be a non-empty array"
    ELSE IF ~IdentifierOK(name) THEN "Invalid table name"
    ELSE ExistsError(tableExists(tree, name), tree, Unique(columns), validations, indexes,
                     relations)

(* Lines 649-658: this.data[name] = { _meta: {...} }; the model leaves out
   the timestamp `created`. *)
Install(error, tree, name, meta) ==
    IF error # "" THEN Threw(tree, error)
    ELSE Done(PutAt(PutAt(tree, <<name>>, MapNode(<<>>)), <<name, "_meta">>, MetaNode(meta)),
              BoolV(TRUE))

(* createTable({name, columns, validations, indexes, relations}) without its
   trailing save *)
createTable(tree, name, columns, validations, indexes, relations) ==
    Install(createTableError(tree, name, columns, validations, indexes, relations), tree, name,
            [columns |-> Unique(columns), validations |-> validations,
             indexes |-> Unique(indexes), relations |-> relations, rowCount |-> 0])

(* dropTable(tableName) without its trailing save *)
dropTable(tree, tableName) ==
    IF MetaKind(tree, tableName) = "none" THEN Threw(tree, "does not exist")
    ELSE Done(RemoveAt(tree, <<tableName>>), BoolV(TRUE))

(***************************************************************************)
(* query, and the row operations built on it                               *)
(***************************************************************************)
(* A where clause is a sequence of entries [column, value], each a direct
   equality row[column] === value; the name of a table is the key as the
   caller wrote it, which names a top-level entry only when it has no dot. *)
Cond(column, value) == [column |-> column, value |-> value]

MetaKindOfKey(tree, keys) == IF Len(keys) = 1 THEN MetaKind(tree, keys[1]) ELSE "none"

(* An array: its elements are the fields 1..n. *)
ArrV(items) == [type |-> "object", num |-> 0, str |-> "[array]", fields |-> items]

(* The strings of the model that are compared, in the order of their UTF-16
   code units, which is the order < gives two strings. *)
CodeUnitOrder == <<"", "1", "2", "John", "Zoe", "abc", "bob">>

StrLess(a, b) ==
    \E i, j \in 1..Len(CodeUnitOrder) : i < j /\ CodeUnitOrder[i] = a /\ CodeUnitOrder[j] = b

(* Number(v): nan tells that the result is NaN. *)
ToNumber(v) ==
    CASE v.type = "number" -> [nan |-> IsNaN(v), n |-> v.num]
      [] v.type = "boolean" -> [nan |-> FALSE, n |-> v.num]
      [] v.type = "null" -> [nan |-> FALSE, n |-> 0]
      [] v.type = "string" ->
            IF v.str = "" THEN [nan |-> FALSE, n |-> 0]
            ELSE IF \E k \in Numbers : NumToStr(k) = v.str
            THEN [nan |-> FALSE, n |-> CHOOSE k \in Numbers : NumToStr(k) = v.str]
            ELSE [nan |-> TRUE, n |-> 0]
      [] OTHER -> [nan |-> TRUE, n |-> 0]

(* a < b: two strings by code units, anything else as numbers; a comparison
   with NaN is false. *)
JsLess(a, b) ==
    IF a.type = "string" /\ b.type = "string" THEN StrLess(a.str, b.str)
    ELSE ~ToNumber(a).nan /\ ~ToNumber(b).nan /\ ToNumber(a).n < ToNumber(b).n

(* a <= b *)
JsLessEq(a, b) ==
    IF a.type = "string" /\ b.type = "string" THEN ~StrLess(b.str, a.str)
    ELSE ~ToNumber(a).nan /\ ~ToNumber(b).nan /\ ToNumber(a).n <= ToNumber(b).n

(* condition.$op !== undefined *)
Has(condition, op) ==
    op \in DOMAIN condition.fields /\ condition.fields[op].type # "undefined"

(* Lines 799-806: no operator of the condition sets matches to false. The
   comparisons are written as the code has them, negated. *)
ConditionHolds(x, condition) ==
    /\ Has(condition, "$eq") => StrictEq(x, condition.fields["$eq"])
    /\ Has(condition, "$ne") => ~StrictEq(x, condition.fields["$ne"])
    /\ Has(condition, "$gt") => ~JsLessEq(x, condition.fields["$gt"])
    /\ Has(condition, "$gte") => ~JsLess(x, condition.fields["$gte"])
    /\ Has(condition, "$lt") => ~JsLessEq(condition.fields["$lt"], x)
    /\ Has(condition, "$lte") => ~JsLess(condition.fields["$lte"], x)
    /\ Has(condition, "$in") => Includes(condition.fields["$in"].fields, x)
    /\ Has(condition, "$nin") => ~Includes(condition.fields["$nin"].fields, x)

(* One where entry against one row, lines 797-810: a value of type object
   is read as an operator object, and reading an operator off null throws. *)
Matches(row, where) ==
    \A i \in 1..Len(where) :
        IF TypeOf(where[i].value) = "object"
        THEN ConditionHolds(JsRead(row, where[i].column), where[i].value)
        ELSE StrictEq(JsRead(row, where[i].column), where[i].value)

(* query(tableName, {where}): the ids of the matching rows in the order of
   the table's keys, each result being {id, ...row}. No column of the model
   is named id. *)
query(tree, keys, where) ==
    IF MetaKindOfKey(tree, keys) = "none" THEN [ok |-> FALSE, err |-> "does not exist", ids |-> <<>>]
    ELSE LET rows == RowKeys(tree, keys[1])
             hit == SelectSeq(rows, LAMBDA id : Matches(DecryptRow(tree, <<keys[1], id>>), where))
         IN IF rows # <<>> /\ \E i \in 1..Len(where) : where[i].value.type = "null"
            THEN [ok |-> FALSE, err |-> "TypeError", ids |-> <<>>]
            ELSE [ok |-> TRUE, err |-> "", ids |-> hit]

(* delete(tableName, where = {}), lines 1033-1046, the definition of delete
   that the class keeps: the one of lines 325-352 is replaced by it. With a
   falsy where it calls super.delete, which Object.prototype does not have.
   Every row found is deleted by a call of this same method. *)
RECURSIVE delete(_, _, _, _)
RECURSIVE DeleteFound(_, _, _)
RECURSIVE DeleteEach(_, _, _, _)
RECURSIVE DeleteRest(_, _, _, _)
delete(tree, keys, whereGiven, where) ==
    IF ~whereGiven THEN Threw(tree, "TypeError")
    ELSE DeleteFound(query(tree, keys, where), tree, keys)

DeleteFound(results, tree, keys) ==
    IF ~results.ok THEN Threw(tree, results.err)
    ELSE DeleteEach(tree, keys, results.ids, 1)

DeleteEach(tree, keys, ids, i) ==
    IF i > Len(ids) THEN Done(tree, NumV(Len(ids)))
    ELSE DeleteRest(delete(tree, keys \o <<ids[i]>>, TRUE, <<>>), keys, ids, i)

DeleteRest(r, keys, ids, i) ==
    IF ~r.ok THEN r ELSE DeleteEach(r.tree, keys, ids, i + 1)

(* { id, ...data } *)
WithId(id, row) ==
    ObjV([f \in DOMAIN row.fields \cup {"id"} |->
            IF f \in DOMAIN row.fields THEN row.fields[f] ELSE StrV(id)])

(* Lines 1001-1004: error is what validateTableData gave, r the outcome of
   the set that follows it. *)
InsertRow(error, r, tree, id, row) ==
    IF error # "" THEN Threw(tree, error)
    ELSE IF ~r.ok THEN r
    ELSE Done(r.tree, WithId(id, row))

(* insert(tableName, data) with the identifier it generated, without the
   save of the set it ends with *)
insert(tree, tableName, row, id) ==
    IF MetaKind(tree, tableName) = "none" THEN Threw(tree, "does not exist")
    ELSE InsertRow(validateTableData(tree, tableName, row),
                   set(tree, <<tableName, id>>, row), tree, id, row)

(* insertMany(tableName, dataArray): one insert per element, in order; the
   first that throws ends the call, the rows inserted before it stay. *)
RECURSIVE insertMany(_, _, _, _, _)
RECURSIVE InsertNext(_, _, _, _, _)
insertMany(tree, tableName, rows, ids, i) ==
    IF i > Len(rows) THEN Done(tree, NumV(Len(rows)))
    ELSE InsertNext(insert(tree, tableName, rows[i], ids[i]), tableName, rows, ids, i)

(* An insertMany that passes over a row that was refused. *)
InsertNext_skipping(r, tableName, rows, ids, i) ==
    insertMany(r.tree, tableName, rows, ids, i + 1)

InsertNext(r, tableName, rows, ids, i) ==
    IF ~r.ok THEN r ELSE insertMany(r.tree, tableName, rows, ids, i + 1)

(* { ...currentData } with every field of updates that is not undefined *)
Merge(current, updates) ==
    LET given == {f \in DOMAIN updates.fields : updates.fields[f].type # "undefined"}
    IN ObjV([f \in DOMAIN current.fields \cup given |->
               IF f \in given THEN updates.fields[f] ELSE current.fields[f]])

(* Lines 765-767 *)
StoreChecked(error, tree, tableName, rowId, updatedData) ==
    IF error # "" THEN Threw(tree, error)
    ELSE set(tree, <<tableName, rowId>>, updatedData)

StoreUpdated(updatedData, tree, tableName, rowId) ==
    StoreChecked(validateTableData(tree, tableName, updatedData), tree, tableName, rowId,
                 updatedData)

(* Lines 754-763, currentData being the outcome of get(`${tableName}.${rowId}`) *)
UpdateRow(currentData, tree, tableName, rowId, updates) ==
    IF ~currentData.ok THEN currentData
    ELSE IF ~Truthy(currentData.ret) THEN Threw(tree, "Record not found")
    ELSE StoreUpdated(Merge(currentData.ret, updates), tree, tableName, rowId)

(* Lines 750-752, exists being the outcome of tableExists(tableName) *)
UpdateIn(exists, tree, tableName, rowId, updates) ==
    IF ~exists.ok THEN exists
    ELSE IF ~Truthy(exists.ret) THEN Threw(tree, "does not exist")
    ELSE UpdateRow(get(tree, <<tableName, rowId>>, NullV), tree, tableName, rowId, updates)

(* update(key, updates), lines 740-768, for a key of two segments or more:
   only the first two are read. *)
update(tree, keys, updates) ==
    IF ~Truthy(updates) \/ TypeOf(updates) # "object"
    THEN Threw(tree, "Updates must be a non-array object")
    ELSE UpdateIn(tableExists(tree, keys[1]), tree, keys[1], keys[2], updates)

(* Lines 1496-1503, found being the outcome of findOne's query *)
UpsertFound(found, tree, tableName, row, id) ==
    IF ~found.ok THEN Threw(tree, found.err)
    ELSE IF found.ids # <<>> THEN update(tree, <<tableName, found.ids[1]>>, row)
    ELSE insert(tree, tableName, row, id)

(* upsert(tableName, data, uniqueColumns) with the identifier an insert
   would generate *)
upsert(tree, tableName, row, uniqueColumns, id) ==
    IF uniqueColumns = <<>> THEN insert(tree, tableName, row, id)
    ELSE UpsertFound(query(tree, <<tableName>>,
                           [i \in 1..Len(uniqueColumns) |->
                              Cond(uniqueColumns[i], JsRead(row, uniqueColumns[i]))]),
                     tree, tableName, row, id)

(* Lines 1062-1064, r being the outcome of delete(tableName) *)
Emptied(r, tableName, backupMeta) ==
    IF ~r.ok THEN r
    ELSE Done(PutAt(PutAt(r.tree, <<tableName>>, MapNode(<<>>)),
                    <<tableName, "_meta">>, backupMeta), BoolV(TRUE))

(* truncate(tableName) without its trailing save: delete(tableName) is the
   table form of delete. *)
truncate(tree, tableName) ==
    IF MetaKind(tree, tableName) = "none" THEN Threw(tree, "does not exist")
    ELSE Emptied(delete(tree, <<tableName>>, TRUE, <<>>), tableName,
                 tree[<<tableName, "_meta">>])

(***************************************************************************)
(* query with orderBy, limit and offset; orderByMultiple                   *)
(***************************************************************************)
(* results.push({ id, ...row }) for the rows found, in the order of the
   table's keys *)
ResultRows(tree, tableName, ids) ==
    [i \in 1..Len(ids) |-> WithId(ids[i], DecryptRow(tree, <<tableName, ids[i]>>))]

(* The comparator of lines 818-823 *)
compareOrderBy(a, b, column, direction) ==
    IF direction = "desc"
    THEN (IF JsLess(JsRead(b, column), JsRead(a, column)) THEN -1
          ELSE IF JsLess(JsRead(a, column), JsRead(b, column)) THEN 1 ELSE 0)
    ELSE (IF JsLess(JsRead(a, column), JsRead(b, column)) THEN -1
          ELSE IF JsLess(JsRead(b, column), JsRead(a, column)) THEN 1 ELSE 0)

(* A sort that leaves the results in the order of the table. *)
InsertOrderBy_unsorted(sorted, x, column, direction) == Append(sorted, x)

(* results.sort(comparator): Array.prototype.sort is stable, and for a
   comparator that orders the values consistently every stable sort gives
   the result of this insertion sort. *)
RECURSIVE InsertOrderBy(_, _, _, _)
InsertOrderBy(sorted, x, column, direction) ==
    IF sorted = <<>> THEN <<x>>
    ELSE IF compareOrderBy(sorted[Len(sorted)], x, column, direction) > 0
    THEN Append(InsertOrderBy(SubSeq(sorted, 1, Len(sorted) - 1), x, column, direction),
                sorted[Len(sorted)])
    ELSE Append(sorted, x)

RECURSIVE SortOrderBy(_, _, _, _)
SortOrderBy(results, n, column, direction) ==
    IF n = 0 THEN <<>>
    ELSE InsertOrderBy(SortOrderBy(results, n - 1, column, direction), results[n], column,
                       direction)

(* results.slice(offset) and results.slice(0, limit), for counts that are
   not negative *)
SliceFrom(results, offset) == SubSeq(results, offset + 1, Len(results))

SliceTo(results, limit) ==
    SubSeq(results, 1, IF limit < Len(results) THEN limit ELSE Len(results))

(* Lines 826-827: if (offset) ...; if (limit) ... *)
Paginate(results, limit, offset) ==
    IF Truthy(limit)
    THEN SliceTo(IF Truthy(offset) THEN SliceFrom(results, offset.num) ELSE results, limit.num)
    ELSE IF Truthy(offset) THEN SliceFrom(results, offset.num)
    ELSE results

(* Lines 816-824: orderBy is the string split at the blank, <<>> standing
   for null; a direction that is absent is 'asc'. *)
Ordered(results, orderBy) ==
    IF orderBy = <<>> THEN results
    ELSE SortOrderBy(results, Len(results), orderBy[1],
                     IF Len(orderBy) > 1 THEN orderBy[2] ELSE "asc")

QueryOptions(where, orderBy, limit, offset) ==
    [where |-> where, orderBy |-> orderBy, limit |-> limit, offset |-> offset]

(* Lines 811-829, found being the rows that match *)
QueryFound(found, tree, tableName, q) ==
    IF ~found.ok THEN Threw(tree, found.err)
    ELSE Done(tree, ArrV(Paginate(Ordered(ResultRows(tree, tableName, found.ids), q.orderBy),
                                  q.limit, q.offset)))

(* query(tableName, {where, orderBy, limit, offset}): the array it returns *)
queryResults(tree, tableName, q) ==
    QueryFound(query(tree, <<tableName>>, q.where), tree, tableName, q)

(* The comparator of lines 1350-1356: the first column that tells the two
   rows apart decides; a direction other than 'asc' is descending. *)
RECURSIVE compareColumns(_, _, _, _)
compareColumns(a, b, columns, i) ==
    IF i > Len(columns) THEN 0
    ELSE IF JsLess(JsRead(a, columns[i].column), JsRead(b, columns[i].column))
    THEN (IF columns[i].direction = "asc" THEN -1 ELSE 1)
    ELSE IF JsLess(JsRead(b, columns[i].column), JsRead(a, columns[i].column))
    THEN (IF columns[i].direction = "asc" THEN 1 ELSE -1)
    ELSE compareColumns(a, b, columns, i + 1)

RECURSIVE InsertColumns(_, _, _)
InsertColumns(sorted, x, columns) ==
    IF sorted = <<>> THEN <<x>>
    ELSE IF compareColumns(sorted[Len(sorted)], x, columns, 1) > 0
    THEN Append(InsertColumns(SubSeq(sorted, 1, Len(sorted) - 1), x, columns),
                sorted[Len(sorted)])
    ELSE Append(sorted, x)

RECURSIVE SortColumns(_, _, _)
SortColumns(results, n, columns) ==
    IF n = 0 THEN <<>>
    ELSE InsertColumns(SortColumns(results, n - 1, columns), results[n], columns)

(* Lines 1348-1361, results being the outcome of query(tableName, {where}) *)
OrderFound(results, tree, q) ==
    IF ~results.ok THEN results
    ELSE Done(tree, ArrV(Paginate(SortColumns(results.ret.fields, Len(results.ret.fields),
                                              q.columns),
                                  q.limit, q.offset)))

(* orderByMultiple(tableName, {columns, where, limit, offset}) *)
orderByMultiple(tree, tableName, q) ==
    IF q.columns = <<>> THEN Threw(tree, "At least one ordering column must be specified")
    ELSE OrderFound(queryResults(tree, tableName, QueryOptions(q.where, <<>>, NullV, NumV(0))),
                    tree, q)

(***************************************************************************)
(* groupBy                                                                 *)
(***************************************************************************)
(* What Array.prototype.join makes of an element: the empty string of null
   and undefined, String(v) of anything else. *)
JoinPart(v) == IF v.type \in {"null", "undefined"} THEN "" ELSE StringOf(v)

(* columns.map(col => row[col]).join('|'), from column i on *)
RECURSIVE groupKey(_, _, _)
groupKey(row, columns, i) ==
    IF i > Len(columns) THEN ""
    ELSE (IF i > 1 THEN "|" ELSE "") \o JoinPart(JsRead(row, columns[i]))
         \o groupKey(row, columns, i + 1)

(* Lines 1221-1224: the row joins the group of its key; a Map keeps its
   keys in the order of their first insertion. *)
AddToGroup(groups, key, row) ==
    IF \E g \in 1..Len(groups) : groups[g].key = key
    THEN [g \in 1..Len(groups) |->
             IF groups[g].key = key
             THEN [key |-> key, rows |-> Append(groups[g].rows, row)]
             ELSE groups[g]]
    ELSE Append(groups, [key |-> key, rows |-> <<row>>])

(* The loop of lines 1219-1225 over results[i..] *)
RECURSIVE Grouped(_, _, _, _)
Grouped(results, columns, i, groups) ==
    IF i > Len(results) THEN groups
    ELSE Grouped(results, columns, i + 1,
                 AddToGroup(groups, groupKey(results[i], columns, 1), results[i]))

(* Lines 1235-1237 *)
numericFields(rows, columns) ==
    {key \in DOMAIN rows[1].fields :
        key \notin Range(columns) /\ TypeOf(rows[1].fields[key]) = "number"}

(* row[field] || 0, for a column that holds numbers *)
OrZero(v) == IF Truthy(v) THEN v.num ELSE 0

RECURSIVE SumOf(_, _, _)
SumOf(rows, field, i) ==
    IF i > Len(rows) THEN 0 ELSE OrZero(JsRead(rows[i], field)) + SumOf(rows, field, i + 1)

MinOf(rows, field) ==
    CHOOSE m \in {OrZero(JsRead(rows[i], field)) : i \in 1..Len(rows)} :
        \A i \in 1..Len(rows) : m <= OrZero(JsRead(rows[i], field))

MaxOf(rows, field) ==
    CHOOSE m \in {OrZero(JsRead(rows[i], field)) : i \in 1..Len(rows)} :
        \A i \in 1..Len(rows) : m >= OrZero(JsRead(rows[i], field))

(* sum / rows.length: a whole number, or its whole part with the remainder
   over the divisor *)
AvgV(sum, n) ==
    IF sum % n = 0 THEN NumV(sum \div n)
    ELSE [type |-> "number", num |-> sum \div n,
          str |-> NumToStr(sum % n) \o "/" \o NumToStr(n), fields |-> NoFields]

(* Lines 1228-1246: the grouping columns as the first row of the group has
   them, then count, then the aggregates of every numeric field of that first
   row; a later assignment to the same name replaces an earlier one. *)
groupValues(rows, columns) ==
    LET numeric == numericFields(rows, columns)
        aggregate == [f \in numeric |->
                        [sum |-> "sum_" \o f, avg |-> "avg_" \o f, min |-> "min_" \o f,
                         max |-> "max_" \o f]]
        names == Range(columns) \cup {"count"}
                 \cup UNION {{aggregate[f].sum, aggregate[f].avg, aggregate[f].min,
                              aggregate[f].max} : f \in numeric}
    IN ObjV([name \in names |->
               IF \E f \in numeric : name = aggregate[f].sum
               THEN NumV(SumOf(rows, CHOOSE f \in numeric : name = aggregate[f].sum, 1))
               ELSE IF \E f \in numeric : name = aggregate[f].avg
               THEN AvgV(SumOf(rows, CHOOSE f \in numeric : name = aggregate[f].avg, 1),
                         Len(rows))
               ELSE IF \E f \in numeric : name = aggregate[f].min
               THEN NumV(MinOf(rows, CHOOSE f \in numeric : name = aggregate[f].min))
               ELSE IF \E f \in numeric : name = aggregate[f].max
               THEN NumV(MaxOf(rows, CHOOSE f \in numeric : name = aggregate[f].max))
               ELSE IF name = "count" THEN NumV(Len(rows))
               ELSE JsRead(rows[1], name)])

(* Lines 1253-1258: the operators that having knows, each in its positive
   form; $in and $nin are not among them. *)
HavingCondition(x, condition) ==
    /\ Has(condition, "$gt") => JsLess(condition.fields["$gt"], x)
    /\ Has(condition, "$gte") => JsLessEq(condition.fields["$gte"], x)
    /\ Has(condition, "$lt") => JsLess(x, condition.fields["$lt"])
    /\ Has(condition, "$lte") => JsLessEq(x, condition.fields["$lte"])
    /\ Has(condition, "$eq") => StrictEq(x, condition.fields["$eq"])
    /\ Has(condition, "$ne") => ~StrictEq(x, condition.fields["$ne"])

(* The filter of lines 1250-1264 for one group; no having entry of the
   model is null. *)
HavingHolds(group, entries) ==
    \A i \in 1..Len(entries) :
        IF TypeOf(entries[i].value) = "object"
        THEN HavingCondition(JsRead(group, entries[i].column), entries[i].value)
        ELSE StrictEq(JsRead(group, entries[i].column), entries[i].value)

(* having is null, or an object whose entries are given *)
NoHaving == [given |-> FALSE, entries |-> <<>>]

Having(entries) == [given |-> TRUE, entries |-> entries]

GroupOptions(columns, where, having) ==
    [columns |-> columns, where |-> where, having |-> having]

(* Lines 1227-1267, groups being the Map of lines 1217-1225 *)
GroupedResults(groups, q) ==
    SelectSeq([g \in 1..Len(groups) |-> groupValues(groups[g].rows, q.columns)],
              LAMBDA group : ~q.having.given \/ HavingHolds(group, q.having.entries))

(* Lines 1216-1267, results being the outcome of query(tableName, {where}) *)
GroupFound(results, tree, q) ==
    IF ~results.ok THEN results
    ELSE Done(tree, ArrV(GroupedResults(Grouped(results.ret.fields, q.columns, 1, <<>>), q)))

(* groupBy(tableName, {columns, where, having}) *)
groupBy(tree, tableName, q) ==
    IF q.columns = <<>>
    THEN Threw(tree, "At least one column must be specified for GROUP BY")
    ELSE GroupFound(queryResults(tree, tableName, QueryOptions(q.where, <<>>, NullV, NumV(0))),
                    tree, q)

(***************************************************************************)
(* select, union, unionAll, distinct                                       *)
(***************************************************************************)
(* Lines 980-990: the own columns of the row that columns names, or the row
   itself when columns starts with '*' *)
Projected(row, columns) ==
    IF columns # <<>> /\ columns[1] = "*" THEN row
    ELSE ObjV([col \in Range(columns) \cap DOMAIN row.fields |-> row.fields[col]])

(* Lines 978-992, found being the outcome of the query *)
SelectFound(found, columns) ==
    IF ~found.ok THEN found
    ELSE Done(found.tree, ArrV([i \in 1..Len(found.ret.fields) |->
                                   Projected(found.ret.fields[i], columns)]))

(* select(tableName, {columns, where}) *)
select(tree, tableName, columns, where) ==
    IF MetaKind(tree, tableName) = "none" THEN Threw(tree, "does not exist")
    ELSE SelectFound(queryResults(tree, tableName, QueryOptions(where, <<>>, NullV, NumV(0))),
                     columns)

(* One query of union and unionAll: {tableName, columns, where} *)
UnionQuery(tableName, columns, where) ==
    [tableName |-> tableName, columns |-> columns, where |-> where]

(* JSON.parse(JSON.stringify(row)) for a row of primitives: a member that
   is undefined is gone, NaN has become null. *)
JsonCopy(row) ==
    ObjV([k \in {f \in DOMAIN row.fields : row.fields[f].type \notin {"undefined", "function"}}
            |-> IF IsNaN(row.fields[k]) THEN NullV ELSE row.fields[k]])

(* results.add(JSON.stringify(row)) for rows[i..], and the rows that
   JSON.parse gives back: a Set keeps the first of equal texts, in the
   order of insertion *)
RECURSIVE UnionRows(_, _, _)
UnionRows(kept, rows, i) ==
    IF i > Len(rows) THEN kept
    ELSE UnionRows(IF \E j \in 1..Len(kept) : JSONStringify(kept[j]) = JSONStringify(rows[i])
                   THEN kept ELSE Append(kept, JsonCopy(rows[i])),
                   rows, i + 1)

(* The loop of lines 1319-1323 over queries[i..], r being the outcome of the
   select of query i *)
RECURSIVE UnionEach(_, _, _, _)
RECURSIVE UnionNext(_, _, _, _, _)
UnionEach(tree, queries, i, kept) ==
    IF i > Len(queries) THEN Done(tree, ArrV(kept))
    ELSE UnionNext(select(tree, queries[i].tableName, queries[i].columns, queries[i].where),
                   tree, queries, i, kept)

UnionNext(r, tree, queries, i, kept) ==
    IF ~r.ok THEN r ELSE UnionEach(tree, queries, i + 1, UnionRows(kept, r.ret.fields, 1))

(* union(queries) *)
union(tree, queries) ==
    IF Len(queries) < 2 THEN Threw(tree, "Union requires at least two queries")
    ELSE UnionEach(tree, queries, 1, <<>>)

(* The loop of lines 1334-1338 *)
RECURSIVE UnionAllEach(_, _, _, _)
RECURSIVE UnionAllNext(_, _, _, _, _)
UnionAllEach(tree, queries, i, results) ==
    IF i > Len(queries) THEN Done(tree, ArrV(results))
    ELSE UnionAllNext(select(tree, queries[i].tableName, queries[i].columns, queries[i].where),
                      tree, queries, i, results)

UnionAllNext(r, tree, queries, i, results) ==
    IF ~r.ok THEN r ELSE UnionAllEach(tree, queries, i + 1, results \o r.ret.fields)

(* unionAll(queries) *)
unionAll(tree, queries) ==
    IF Len(queries) < 2 THEN Threw(tree, "Union ALL requires at least two queries")
    ELSE UnionAllEach(tree, queries, 1, <<>>)

(* Lines 1278-1282: the rows whose key columns.map(col => row[col]).join('|')
   no earlier row has *)
DistinctRows(results, columns) ==
    LET first(i) == \A j \in 1..(i - 1) :
                       groupKey(results[j], columns, 1) # groupKey(results[i], columns, 1)
        kept == {i \in 1..Len(results) : first(i)}
        RECURSIVE pick(_)
        pick(i) == IF i > Len(results) THEN <<>>
                   ELSE (IF i \in kept THEN <<results[i]>> ELSE <<>>) \o pick(i + 1)
    IN pick(1)

(* Lines 1283-1292: the value of the column when there is one column, the
   object of the columns otherwise *)
DistinctValue(row, columns) ==
    IF Len(columns) = 1 THEN JsRead(row, columns[1])
    ELSE ObjV([col \in Range(columns) |-> JsRead(row, col)])

(* Lines 1275-1292, results being the outcome of query(tableName, {where}) *)
DistinctFound(results, columns) ==
    IF ~results.ok THEN results
    ELSE Done(results.tree,
              ArrV([i \in 1..Len(DistinctRows(results.ret.fields, columns)) |->
                      DistinctValue(DistinctRows(results.ret.fields, columns)[i], columns)]))

(* distinct(tableName, columns, where) *)
distinct(tree, tableName, columns, where) ==
    IF columns = <<>> THEN Threw(tree, "At least one column must be specified for DISTINCT")
    ELSE DistinctFound(queryResults(tree, tableName,
                                    QueryOptions(where, <<>>, NullV, NumV(0))), columns)

(***************************************************************************)
(* findOne, count, exists, findAndCount, findByIds, between, like, in,     *)
(* notIn, aggregate                                                        *)
(***************************************************************************)
(* results[0] || null *)
FirstOrNull(results) ==
    IF ~results.ok THEN results
    ELSE Done(results.tree, IF results.ret.fields = <<>> THEN NullV ELSE results.ret.fields[1])

(* findOne(tableName, where) *)
findOne(tree, tableName, where) ==
    FirstOrNull(queryResults(tree, tableName, QueryOptions(where, <<>>, NumV(1), NumV(0))))

(* results.length *)
LengthOf(results) ==
    IF ~results.ok THEN results ELSE Done(results.tree, NumV(Len(results.ret.fields)))

(* count(tableName, where) *)
count(tree, tableName, where) ==
    LengthOf(queryResults(tree, tableName, QueryOptions(where, <<>>, NullV, NumV(0))))

(* result !== null *)
NotNull(result) ==
    IF ~result.ok THEN result ELSE Done(result.tree, BoolV(result.ret.type # "null"))

(* exists(tableName, where) *)
exists(tree, tableName, where) == NotNull(findOne(tree, tableName, where))

(* { rows, count } of the two promises; the rejection of the first is the
   rejection of Promise.all. *)
RowsAndCount(rows, counted) ==
    IF ~rows.ok THEN rows
    ELSE IF ~counted.ok THEN counted
    ELSE Done(counted.tree, ObjV([k \in {"rows", "count"} |->
                                    IF k = "rows" THEN rows.ret ELSE counted.ret]))

(* findAndCount(tableName, {where, orderBy, limit, offset}) *)
findAndCount(tree, tableName, q) ==
    RowsAndCount(queryResults(tree, tableName, q),
                 count(queryResults(tree, tableName, q).tree, tableName, q.where))

(* Lines 1478-1481 for ids[i..], row being what findById gave for ids[i] *)
RECURSIVE FindEach(_, _, _, _, _)
FoundById(row, id, results) ==
    IF ~Truthy(row) THEN results
    ELSE Append(results, IF row.type = "object" /\ row.str = "" THEN WithId(id, row)
                         ELSE ObjV([k \in {"id"} |-> StrV(id)]))

FindEach(tree, tableName, ids, i, results) ==
    IF i > Len(ids) THEN Done(tree, ArrV(results))
    ELSE FindEach(get(tree, <<tableName, ids[i]>>, NullV).tree, tableName, ids, i + 1,
                  FoundById(get(tree, <<tableName, ids[i]>>, NullV).ret, ids[i], results))

(* findByIds(tableName, ids), ids an array *)
findByIds(tree, tableName, ids) == FindEach(tree, tableName, ids, 1, <<>>)

(* between(tableName, column, start, end, {inclusive}) *)
between(tree, tableName, column, start, end, inclusive) ==
    IF column = "" THEN Threw(tree, "Column name is required")
    ELSE queryResults(tree, tableName,
                      QueryOptions(<<Cond(column,
                                          ObjV([o \in (IF inclusive THEN {"$gte", "$lte"}
                                                       ELSE {"$gt", "$lt"}) |->
                                                  IF o \in {"$gte", "$gt"} THEN start ELSE end]))>>,
                                   <<>>, NullV, NumV(0)))

(* new RegExp(`^${regexPattern}$`, 'i').test(value) for the patterns and
   the texts of the model: % is any run of characters, _ one character. *)
LikeTest(pattern, value) ==
    CASE pattern = "%" -> TRUE
      [] pattern = "j%" -> value \in {"John"}
      [] pattern = "ABC" -> value \in {"abc"}
      [] pattern = "_" -> value \in {"1", "2", "0"}
      [] OTHER -> FALSE

(* String(row[column] || '') *)
LikeValue(row, column) ==
    IF Truthy(JsRead(row, column)) THEN StringOf(JsRead(row, column)) ELSE ""

(* results.filter(...) of lines 1386-1389 *)
RECURSIVE LikeFilter(_, _, _, _)
LikeFilter(rows, column, pattern, i) ==
    IF i > Len(rows) THEN <<>>
    ELSE (IF LikeTest(pattern, LikeValue(rows[i], column)) THEN <<rows[i]>> ELSE <<>>)
         \o LikeFilter(rows, column, pattern, i + 1)

LikeFound(results, column, pattern) ==
    IF ~results.ok THEN results
    ELSE Done(results.tree, ArrV(LikeFilter(results.ret.fields, column, pattern, 1)))

(* like(tableName, column, pattern) *)
like(tree, tableName, column, pattern) ==
    IF column = "" THEN Threw(tree, "Column name is required")
    ELSE IF pattern = "" THEN Threw(tree, "Pattern is required")
    ELSE LikeFound(queryResults(tree, tableName, QueryOptions(<<>>, <<>>, NullV, NumV(0))),
                   column, pattern)

(* in(tableName, column, values) and notIn(tableName, column, values), op
   being $in or $nin and values an array *)
inValues(tree, tableName, column, op, values) ==
    IF column = "" THEN Threw(tree, "Column name is required")
    ELSE queryResults(tree, tableName,
                      QueryOptions(<<Cond(column, ObjV([o \in {op} |-> ArrV(values)]))>>,
                                   <<>>, NullV, NumV(0)))

(* Number(row[column]) || 0 *)
NumberOrZero(v) == IF ToNumber(v).nan THEN 0 ELSE ToNumber(v).n

RECURSIVE AggregateSum(_, _, _)
AggregateSum(rows, column, i) ==
    IF i > Len(rows) THEN 0
    ELSE NumberOrZero(JsRead(rows[i], column)) + AggregateSum(rows, column, i + 1)

(* One case of the switch of lines 1422-1442 *)
AggregateValue(rows, name, column) ==
    LET numbers == {NumberOrZero(JsRead(rows[i], column)) : i \in 1..Len(rows)}
    IN CASE name = "sum" -> NumV(AggregateSum(rows, column, 1))
         [] name = "avg" -> IF rows = <<>> THEN NumV(0)
                            ELSE AvgV(AggregateSum(rows, column, 1), Len(rows))
         [] name = "min" -> IF rows = <<>> THEN NullV
                            ELSE NumV(CHOOSE m \in numbers : \A n \in numbers : m <= n)
         [] name = "max" -> IF rows = <<>> THEN NullV
                            ELSE NumV(CHOOSE m \in numbers : \A n \in numbers : m >= n)
         [] name = "count" ->
               IF column = "*" THEN NumV(Len(rows))
               ELSE NumV(Cardinality({i \in 1..Len(rows) :
                                        JsRead(rows[i], column).type \notin
                                            {"null", "undefined"}}))
         [] OTHER -> UndefV

(* alias || `${name}_${column}` *)
resultKey(func) == IF func.alias # "" THEN func.alias ELSE func.name \o "_" \o func.column

(* The loop of lines 1418-1443: a later function with the key of an earlier
   one replaces its value; a name the switch does not know adds nothing. *)
Aggregations(results, functions) ==
    IF ~results.ok THEN results
    ELSE LET known == {i \in 1..Len(functions) :
                          functions[i].name \in {"sum", "avg", "min", "max", "count"}}
             lastOf(k) == CHOOSE i \in known :
                             /\ resultKey(functions[i]) = k
                             /\ \A j \in known : resultKey(functions[j]) = k => j <= i
         IN Done(results.tree,
                 ObjV([k \in {resultKey(functions[i]) : i \in known} |->
                         AggregateValue(results.ret.fields, functions[lastOf(k)].name,
                                        functions[lastOf(k)].column)]))

(* aggregate(tableName, {functions, where}); name.toLowerCase() is taken
   as done by the caller. *)
aggregate(tree, tableName, functions, where) ==
    Aggregations(queryResults(tree, tableName, QueryOptions(where, <<>>, NullV, NumV(0))),
                 functions)

(***************************************************************************)
(* join                                                                    *)
(***************************************************************************)
(* A getTable that deletes _meta from the table itself. *)
getTable_shared(tree, tableName) ==
    IF MetaKind(tree, tableName) = "none" THEN Threw(tree, "does not exist")
    ELSE Done(RemoveAt(tree, <<tableName, "_meta">>),
              ArrV([i \in 1..Len(RowKeys(tree, tableName)) |->
                      [id |-> RowKeys(tree, tableName)[i],
                       row |-> DecryptRow(tree, <<tableName, RowKeys(tree, tableName)[i]>>)]]))

(* getTable(tableName), lines 846-863: the decrypted rows in the order of
   the table's keys; _meta is deleted from a copy of the table. *)
getTable(tree, tableName) ==
    IF MetaKind(tree, tableName) = "none" THEN Threw(tree, "does not exist")
    ELSE Done(tree, ArrV([i \in 1..Len(RowKeys(tree, tableName)) |->
                            [id |-> RowKeys(tree, tableName)[i],
                             row |-> DecryptRow(tree, <<tableName, RowKeys(tree, tableName)[i]>>)]]))

(* `${table}_${k}` *)
Prefixed(table, k) == table \o "_" \o k

(* The object literal of lines 1086-1093 and 1108-1116: the two markers,
   then the columns of the main row, then the columns of the join side under
   their prefixed names; of two entries with one name the later stays. *)
Merged(mainTable, joinTable, mainId, mainRow, joinId, joinFields) ==
    LET prefixed == {Prefixed(joinTable, k) : k \in DOMAIN joinFields}
        names == {Prefixed(mainTable, "id"), Prefixed(joinTable, "id")}
                 \cup DOMAIN mainRow.fields \cup prefixed
    IN ObjV([name \in names |->
               IF name \in prefixed
               THEN joinFields[CHOOSE k \in DOMAIN joinFields : Prefixed(joinTable, k) = name]
               ELSE IF name \in DOMAIN mainRow.fields THEN mainRow.fields[name]
               ELSE IF name = Prefixed(joinTable, "id") THEN joinId
               ELSE StrV(mainId)])

(* Lines 1095-1105: the columns of select that the merged row has, or the
   merged row when select starts with '*' *)
Selected(merged, selection) ==
    IF selection # <<>> /\ selection[1] = "*" THEN merged
    ELSE ObjV([name \in Range(selection) \cap DOMAIN merged.fields |-> merged.fields[name]])

JoinOptions(from, to, type, selection) ==
    [from |-> from, to |-> to, type |-> type, select |-> selection]

(* Lines 1080-1082 *)
JoinMatches(mainRow, joinData, q) ==
    SelectSeq(joinData, LAMBDA j : StrictEq(JsRead(mainRow, q.from), JsRead(j.row, q.to)))

(* Lines 1113-1114: the columns of the first row of the join table, null *)
NullColumns(joinData) ==
    IF joinData = <<>> THEN NoFields
    ELSE [k \in DOMAIN joinData[1].row.fields |-> NullV]

(* Lines 1084-1129 for one row of the main table, matches being its rows of
   the join table *)
JoinedRows(matches, main, joinData, mainTable, joinTable, q) ==
    IF matches # <<>>
    THEN [i \in 1..Len(matches) |->
             Selected(Merged(mainTable, joinTable, main.id, main.row, StrV(matches[i].id),
                             matches[i].row.fields), q.select)]
    ELSE IF q.type \in {"LEFT", "OUTER"}
    THEN <<Selected(Merged(mainTable, joinTable, main.id, main.row, NullV,
                           NullColumns(joinData)), q.select)>>
    ELSE <<>>

(* The loop of lines 1079-1130 over mainData[i..] *)
RECURSIVE JoinEach(_, _, _, _, _, _)
JoinEach(mainData, i, joinData, mainTable, joinTable, q) ==
    IF i > Len(mainData) THEN <<>>
    ELSE JoinedRows(JoinMatches(mainData[i].row, joinData, q), mainData[i], joinData,
                    mainTable, joinTable, q)
         \o JoinEach(mainData, i + 1, joinData, mainTable, joinTable, q)

(* Lines 1075-1132, mainData and joinData being the outcomes of getTable *)
JoinTables(mainData, joinData, tree, mainTable, joinTable, q) ==
    IF ~mainData.ok THEN mainData
    ELSE IF ~joinData.ok THEN joinData
    ELSE Done(joinData.tree, ArrV(JoinEach(mainData.ret.fields, 1, joinData.ret.fields,
                                           mainTable, joinTable, q)))

(* join(mainTable, joinTable, {on: {from, to}, type, select}); an on that
   is absent, or lacks from or to, is from = "" or to = "". *)
join(tree, mainTable, joinTable, q) ==
    IF q.from = "" \/ q.to = ""
    THEN Threw(tree, "Join conditions must specify from and to columns")
    ELSE JoinTables(getTable(tree, mainTable),
                    getTable(getTable(tree, mainTable).tree, joinTable), tree, mainTable,
                    joinTable, q)

(***************************************************************************)
(* alterTable                                                              *)
(***************************************************************************)
(* meta.<field> = ..., meta being this.data[tableName]._meta *)
SetMeta(tree, tableName, meta) == [tree EXCEPT ![<<tableName, "_meta">>] = MetaNode(meta)]

(* The loop over addColumns, lines 1161-1169: each column is pushed as soon
   as it has passed, so the columns before one that throws stay. *)
RECURSIVE AddColumns(_, _, _, _)
AddColumns(tree, tableName, addColumns, i) ==
    IF i > Len(addColumns) THEN Done(tree, BoolV(TRUE))
    ELSE IF addColumns[i] \in Range(MetaOf(tree, tableName).columns)
         THEN Threw(tree, "already exists")
    ELSE IF ~IdentifierOK(addColumns[i]) THEN Threw(tree, "Invalid column name")
    ELSE AddColumns(SetMeta(tree, tableName,
                            [MetaOf(tree, tableName) EXCEPT
                                !.columns = Append(@, addColumns[i])]),
                    tableName, addColumns, i + 1)

(* An alterTable that leaves the rows as they are. *)
DropFromRows_kept(tree, tableName, column, keys, i) == tree

(* Lines 1179-1184: delete table[key][column] for every key of the table
   other than _meta *)
RECURSIVE DropFromRows(_, _, _, _, _)
DropFromRows(tree, tableName, column, keys, i) ==
    IF i > Len(keys) THEN tree
    ELSE DropFromRows(RemoveAt(tree, <<tableName, keys[i], column>>), tableName, column,
                      keys, i + 1)

(* Lines 1175-1177 *)
DropFromMeta(meta, column) ==
    [meta EXCEPT !.columns = Without(@, column),
                 !.validations = SelectSeq(@, LAMBDA rules : rules.col # column),
                 !.indexes = Without(@, column)]

(* The loop over dropColumns, lines 1171-1185 *)
RECURSIVE DropColumns(_, _, _, _)
DropColumns(tree, tableName, dropColumns, i) ==
    IF i > Len(dropColumns) THEN Done(tree, BoolV(TRUE))
    ELSE IF dropColumns[i] \notin Range(MetaOf(tree, tableName).columns)
         THEN Threw(tree, "Column does not exist")
    ELSE DropColumns(DropFromRows(SetMeta(tree, tableName,
                                          DropFromMeta(MetaOf(tree, tableName),
                                                       dropColumns[i])),
                                  tableName, dropColumns[i], RowKeys(tree, tableName), 1),
                     tableName, dropColumns, i + 1)

(* meta.validations[column] = rules: an entry the object has keeps its
   place, a new one goes to the end. *)
PutRule(validations, rules) ==
    IF \E j \in 1..Len(validations) : validations[j].col = rules.col
    THEN [j \in 1..Len(validations) |->
             IF validations[j].col = rules.col THEN rules ELSE validations[j]]
    ELSE Append(validations, rules)

(* The loop over Object.entries(modifyValidations), lines 1187-1192 *)
RECURSIVE ModifyValidations(_, _, _, _)
ModifyValidations(tree, tableName, modifyValidations, i) ==
    IF i > Len(modifyValidations) THEN Done(tree, BoolV(TRUE))
    ELSE IF modifyValidations[i].col \notin Range(MetaOf(tree, tableName).columns)
         THEN Threw(tree, "Column does not exist")
    ELSE ModifyValidations(SetMeta(tree, tableName,
                                   [MetaOf(tree, tableName) EXCEPT
                                       !.validations = PutRule(@, modifyValidations[i])]),
                           tableName, modifyValidations, i + 1)

(* The loop over addIndexes, lines 1194-1201 *)
RECURSIVE AddIndexes(_, _, _, _)
AddIndexes(tree, tableName, addIndexes, i) ==
    IF i > Len(addIndexes) THEN Done(tree, BoolV(TRUE))
    ELSE IF addIndexes[i] \notin Range(MetaOf(tree, tableName).columns)
         THEN Threw(tree, "Column does not exist")
    ELSE IF addIndexes[i] \in Range(MetaOf(tree, tableName).indexes)
         THEN AddIndexes(tree, tableName, addIndexes, i + 1)
    ELSE AddIndexes(SetMeta(tree, tableName,
                            [MetaOf(tree, tableName) EXCEPT
                                !.indexes = Append(@, addIndexes[i])]),
                    tableName, addIndexes, i + 1)

(* The loop over dropIndexes, lines 1203-1205 *)
RECURSIVE DropIndexes(_, _, _, _)
DropIndexes(tree, tableName, dropIndexes, i) ==
    IF i > Len(dropIndexes) THEN Done(tree, BoolV(TRUE))
    ELSE DropIndexes(SetMeta(tree, tableName,
                             [MetaOf(tree, tableName) EXCEPT
                                 !.indexes = Without(@, dropIndexes[i])]),
                     tableName, dropIndexes, i + 1)

(* Each loop runs when the loop before it has not thrown: r is the outcome
   of that loop. *)
AfterAddIndexes(r, tableName, a) ==
    IF ~r.ok THEN r ELSE DropIndexes(r.tree, tableName, a.dropIndexes, 1)

AfterModifyValidations(r, tableName, a) ==
    IF ~r.ok THEN r
    ELSE AfterAddIndexes(AddIndexes(r.tree, tableName, a.addIndexes, 1), tableName, a)

AfterDropColumns(r, tableName, a) ==
    IF ~r.ok THEN r
    ELSE AfterModifyValidations(ModifyValidations(r.tree, tableName, a.modifyValidations, 1),
                                tableName, a)

AfterAddColumns(r, tableName, a) ==
    IF ~r.ok THEN r
    ELSE AfterDropColumns(DropColumns(r.tree, tableName, a.dropColumns, 1), tableName, a)

(* alterTable(tableName, {addColumns, dropColumns, modifyValidations,
   addIndexes, dropIndexes}) without its trailing save: the five loops in
   their order, on the metadata object itself. A _meta that is no metadata
   object has no columns to search. *)
alterTable(tree, tableName, a) ==
    IF MetaKind(tree, tableName) = "none" THEN Threw(tree, "does not exist")
    ELSE IF MetaKind(tree, tableName) # "meta"
    THEN (IF a.addColumns = <<>> /\ a.dropColumns = <<>> /\ a.modifyValidations = <<>>
             /\ a.addIndexes = <<>> /\ a.dropIndexes = <<>>
          THEN Done(tree, BoolV(TRUE))
          ELSE Threw(tree, "TypeError"))
    ELSE AfterAddColumns(AddColumns(tree, tableName, a.addColumns, 1), tableName, a)

(***************************************************************************)
(* The calls as actions                                                    *)
(***************************************************************************)
Call(op, keys, val, req, r) ==
    [op |-> op, keys |-> keys, val |-> val, req |-> req, ok |-> r.ok, err |-> r.err,
     ret |-> r.ret]

(* this.fileFormat, the extension of this.filePath *)
fileFormat == "json"

(* Whether JSON.stringify leaves out the member at p: its value is stored
   as it is and is undefined or a function. *)
LeftOut(tree, p) ==
    tree[p].kind = "leaf" /\ ~tree[p].tok /\ tree[p].val.type \in {"undefined", "function"}

(* The tree that JSON.parse makes of JSON.stringify(tree): a member that is
   undefined is gone, NaN has become null; tokens are strings and stay. *)
JsonTree(tree) ==
    [p \in {q \in DOMAIN tree : ~LeftOut(tree, q)} |->
        IF tree[p].kind = "map"
        THEN [tree[p] EXCEPT !.keys = SelectSeq(tree[p].keys,
                                                LAMBDA k : ~LeftOut(tree, p \o <<k>>))]
        ELSE IF tree[p].kind = "leaf" /\ ~tree[p].tok /\ IsNaN(tree[p].val)
        THEN LeafNode(Raw(NullV))
        ELSE tree[p]]

(* The tables that generateSQLContent writes, lines 917-950: the top-level
   entries that are objects with a _meta; the rest of the tree is not
   written. *)
SqlTables(tree) ==
    [p \in {q \in DOMAIN tree : q = <<>> \/ MetaKind(tree, q[1]) # "none"} |->
        IF p = <<>>
        THEN MapNode(SelectSeq(tree[p].keys, LAMBDA k : MetaKind(tree, k) # "none"))
        ELSE tree[p]]

(* The content that save() writes for the format, lines 175-181, as the
   tree it denotes *)
Serialized(format, tree) == IF format = "sql" THEN SqlTables(tree) ELSE JsonTree(tree)

(* if (this.autoSave) await this.save(): the file receives the tree. *)
Saved(r) == IF autoSave /\ r.ok THEN Serialized(fileFormat, r.tree) ELSE file

(* The calls that the model keeps in flight at once *)
Tasks == {"a", "b"}

(* A file that does not exist; a file whose write is under way holds a part
   of the content, a file whose write has ended holds the content. *)
NoFile == [state |-> "absent", tree |-> EmptyTree]
PartOf(tree) == [state |-> "partial", tree |-> tree]
AllOf(tree) == [state |-> "complete", tree |-> tree]

(* What the database file holds when it is a part of a content: no tree. *)
Torn == [p \in {<<>>} |-> [MapNode(<<>>) EXCEPT !.kind = "torn"]]

Idle == [pc |-> "idle", content |-> EmptyTree, stamp |-> <<>>]

(* this.maxBackups *)
maxBackups == 2

NoBackups == [f \in {} |-> 0]

Init ==
    /\ data = EmptyTree
    /\ file = EmptyTree
    /\ autoSave = TRUE
    /\ last = Call("new", <<>>, UndefV, NoMeta, Done(EmptyTree, UndefV))
    /\ fileLock = FALSE
    /\ tempFile = NoFile
    /\ tasks = [t \in Tasks |-> Idle]
    /\ had = {EmptyTree}
    /\ initialized = TRUE
    /\ backups = NoBackups
    /\ now = FirstStamp

(* encryptValue(value) followed by decryptValue of its result; err tells
   whether a token was produced. *)
DoCodec(value) ==
    /\ last' = Call("codec", <<>>, value, NoMeta,
                    [tree |-> data, ok |-> TRUE,
                     err |-> IF encryptValue(value).tok THEN "token" ELSE "raw",
                     ret |-> decryptValue(encryptValue(value))])
    /\ UNCHANGED <<data, file, autoSave>>
    /\ UNCHANGED <<ioVars, initialized, dirVars>>

(* A call that ends with `if (this.autoSave) await this.save()`: r is its
   outcome. *)
Saving(op, keys, val, req, r) ==
    /\ data' = r.tree
    /\ file' = Saved(r)
    /\ last' = Call(op, keys, val, req, r)
    /\ UNCHANGED autoSave
    /\ UNCHANGED <<ioVars, initialized, dirVars>>

(* A call that does not save. *)
NotSaving(op, keys, val, r) ==
    /\ data' = r.tree
    /\ last' = Call(op, keys, val, NoMeta, r)
    /\ UNCHANGED <<file, autoSave>>
    /\ UNCHANGED <<ioVars, initialized, dirVars>>

DoSet(keys, value) ==
    /\ Saving("set", keys, value, NoMeta, set(data, keys, value))

DoGet(keys, defaultValue) ==
    /\ NotSaving("get", keys, defaultValue, get(data, keys, defaultValue))

(* delete(key) and delete(key, null): no save follows in this method. *)
DoDelete(keys, whereGiven) ==
    /\ NotSaving("delete", keys, BoolV(whereGiven), delete(data, keys, whereGiven, <<>>))

DoCreateTable(name, columns, validations, indexes, relations) ==
    /\ Saving("createTable", <<name>>, UndefV,
              [columns |-> columns, validations |-> validations, indexes |-> indexes,
               relations |-> relations, rowCount |-> 0],
              createTable(data, name, columns, validations, indexes, relations))

DoDropTable(tableName) ==
    /\ Saving("dropTable", <<tableName>>, UndefV, NoMeta, dropTable(data, tableName))

(* Date.now() and Math.random() give an identifier no row has yet. *)
RowIds == {"r" \o NumToStr(i) : i \in 1..MaxRows}

FreshIds(tableName) ==
    IF <<tableName>> \in DOMAIN data /\ data[<<tableName>>].kind = "map"
    THEN RowIds \ Range(KeysAt(data, <<tableName>>))
    ELSE RowIds

DoInsert(tableName, row) ==
    \E id \in FreshIds(tableName) :
        Saving("insert", <<tableName, id>>, row, NoMeta, insert(data, tableName, row, id))

DoInsertMany(tableName, rows) ==
    \E ids \in [1..Len(rows) -> FreshIds(tableName)] :
        /\ \A i, j \in 1..Len(rows) : i # j => ids[i] # ids[j]
        /\ Saving("insertMany", <<tableName>>, NumV(Len(rows)), [rows |-> rows, ids |-> ids],
                  insertMany(data, tableName, rows, ids, 1))

DoUpdate(keys, updates) ==
    /\ Saving("update", keys, updates, NoMeta, update(data, keys, updates))

DoUpsert(tableName, row, uniqueColumns) ==
    \E id \in FreshIds(tableName) :
        Saving("upsert", <<tableName>>, row, [uniqueColumns |-> uniqueColumns],
               upsert(data, tableName, row, uniqueColumns, id))

DoTruncate(tableName) ==
    /\ Saving("truncate", <<tableName>>, UndefV, NoMeta, truncate(data, tableName))

(* A call that reads: req holds its options. *)
Reading(op, keys, req, r) ==
    /\ data' = r.tree
    /\ last' = Call(op, keys, UndefV, req, r)
    /\ UNCHANGED <<file, autoSave>>
    /\ UNCHANGED <<ioVars, initialized, dirVars>>

DoQuery(tableName, q) ==
    /\ Reading("query", <<tableName>>, q, queryResults(data, tableName, q))

DoOrderByMultiple(tableName, q) ==
    /\ Reading("orderByMultiple", <<tableName>>, q, orderByMultiple(data, tableName, q))

DoGroupBy(tableName, q) ==
    /\ Reading("groupBy", <<tableName>>, q, groupBy(data, tableName, q))

DoJoin(mainTable, joinTable, q) ==
    /\ Reading("join", <<mainTable, joinTable>>, q, join(data, mainTable, joinTable, q))

DoUnion(queries) ==
    /\ Reading("union", <<>>, queries, union(data, queries))

DoUnionAll(queries) ==
    /\ Reading("unionAll", <<>>, queries, unionAll(data, queries))

DoDistinct(tableName, columns, where) ==
    /\ Reading("distinct", <<tableName>>, [columns |-> columns, where |-> where],
               distinct(data, tableName, columns, where))

DoSelect(tableName, columns, where) ==
    /\ Reading("select", <<tableName>>, [columns |-> columns, where |-> where],
               select(data, tableName, columns, where))

(* findById(tableName, id) is get(`${tableName}.${id}`) *)
DoFindById(tableName, id) ==
    /\ Reading("findById", <<tableName, id>>, NoMeta, get(data, <<tableName, id>>, NullV))

DoFindOne(tableName, where) ==
    /\ Reading("findOne", <<tableName>>, where, findOne(data, tableName, where))

DoCount(tableName, where) ==
    /\ Reading("count", <<tableName>>, where, count(data, tableName, where))

DoExists(tableName, where) ==
    /\ Reading("exists", <<tableName>>, where, exists(data, tableName, where))

DoFindAndCount(tableName, q) ==
    /\ Reading("findAndCount", <<tableName>>, q, findAndCount(data, tableName, q))

DoFindByIds(tableName, ids) ==
    /\ Reading("findByIds", <<tableName>>, ids, findByIds(data, tableName, ids))

DoBetween(tableName, column, start, end, inclusive) ==
    /\ Reading("between", <<tableName>>,
               [column |-> column, start |-> start, end |-> end, inclusive |-> inclusive],
               between(data, tableName, column, start, end, inclusive))

DoLike(tableName, column, pattern) ==
    /\ Reading("like", <<tableName>>, [column |-> column, pattern |-> pattern],
               like(data, tableName, column, pattern))

DoIn(tableName, column, values) ==
    /\ Reading("in", <<tableName>>, [column |-> column, values |-> values],
               inValues(data, tableName, column, "$in", values))

DoNotIn(tableName, column, values) ==
    /\ Reading("notIn", <<tableName>>, [column |-> column, values |-> values],
               inValues(data, tableName, column, "$nin", values))

DoAggregate(tableName, functions, where) ==
    /\ Reading("aggregate", <<tableName>>, [functions |-> functions, where |-> where],
               aggregate(data, tableName, functions, where))

(***************************************************************************)
(* save(), step by step: the calls of a process run one at a time and give *)
(* way to each other at every await.                                       *)
(***************************************************************************)
At(t, pc) == tasks[t].pc = pc

Goto(t, pc) == tasks' = [tasks EXCEPT ![t].pc = pc]

(* A call that changes this.data to tree and then calls save(), autoSave
   being on: up to `await this.ensureInitialized()` in save. *)
Mutate(t, op, keys, r) ==
    /\ At(t, "idle") /\ autoSave
    /\ data' = r.tree
    /\ had' = had \cup {r.tree}
    /\ last' = Call(op, keys, UndefV, [loaded |-> initialized], r)
    /\ Goto(t, IF r.ok THEN "acquireLock" ELSE "idle")
    /\ UNCHANGED <<file, autoSave, fileLock, tempFile, initialized, dirVars>>

(* set(key, value) on a path that is no row of a table; it awaits
   ensureInitialized() before anything else. *)
TaskSet(t, keys, value) ==
    /\ initialized
    /\ Mutate(t, "set", keys, set(data, keys, value))

(* clear() *)
TaskClear(t) ==
    /\ Mutate(t, "clear", <<>>, Done(EmptyTree, BoolV(TRUE)))

(* dropTable(tableName) *)
TaskDropTable(t, tableName) ==
    /\ Mutate(t, "dropTable", <<tableName>>, dropTable(data, tableName))

(* createTable(...): it awaits ensureInitialized() before anything else. *)
TaskCreateTable(t, a) ==
    /\ initialized
    /\ Mutate(t, "createTable", <<a.name>>,
              createTable(data, a.name, a.columns, a.validations, a.indexes, a.relations))

(* alterTable(tableName, a): what it has changed when it throws stays in
   this.data, and no save follows. *)
TaskAlterTable(t, tableName, a) ==
    /\ Mutate(t, "alterTable", <<tableName>>, alterTable(data, tableName, a))

(* A call in flight between its read of this.data and its write: it holds
   what it read. *)
Holding(pc, keys, currentValue, value) ==
    [pc |-> pc, content |-> EmptyTree, stamp |-> <<>>, keys |-> keys,
     currentValue |-> currentValue, value |-> value]

(* add(key, value), lines 380-388, up to the end of
   `const currentValue = await this.get(key, 0)`: r is the outcome of the
   get. increment(key) is add(key, 1). *)
TaskAddGets(t, keys, value, r) ==
    /\ At(t, "idle") /\ autoSave /\ initialized
    /\ tasks' = [tasks EXCEPT ![t] = IF r.ok /\ TypeOf(r.ret) = "number"
                                     THEN Holding("add", keys, r.ret, value)
                                     ELSE Idle]
    /\ last' = Call("add", keys, value, [loaded |-> initialized],
                    IF r.ok /\ TypeOf(r.ret) # "number"
                    THEN Threw(data, "Target is not a number") ELSE r)
    /\ UNCHANGED <<data, file, autoSave, fileLock, tempFile, had, initialized, dirVars>>

(* Line 387, `return this.set(key, currentValue + value)`: the set stores
   the sum made of the value that the get returned, and goes on to save. *)
TaskAddSets(t) ==
    /\ At(t, "add")
    /\ data' = set(data, tasks[t].keys,
                   NumV(tasks[t].currentValue.num + tasks[t].value.num)).tree
    /\ had' = had \cup {data'}
    /\ tasks' = [tasks EXCEPT ![t] = [Idle EXCEPT !.pc = "acquireLock"]]
    /\ UNCHANGED <<file, autoSave, last, fileLock, tempFile, initialized, dirVars>>

(* upsert(tableName, data, uniqueColumns), lines 1486-1495, up to the end
   of `const existing = await this.findOne(tableName, where)`: found is the
   outcome of findOne's query. The call holds the id of the row found, or
   null. *)
TaskUpsertFinds(t, tableName, row, uniqueColumns, found) ==
    /\ At(t, "idle") /\ autoSave /\ initialized
    /\ tasks' = [tasks EXCEPT ![t] =
                    IF ~found.ok THEN Idle
                    ELSE Holding("upsert", <<tableName>>,
                                 IF found.ids = <<>> THEN NullV ELSE StrV(found.ids[1]), row)]
    /\ last' = Call("upsert", <<tableName>>, row, [uniqueColumns |-> uniqueColumns],
                    IF found.ok THEN Done(data, UndefV) ELSE Threw(data, found.err))
    /\ UNCHANGED <<data, file, autoSave, fileLock, tempFile, had, initialized, dirVars>>

(* Lines 1496-1503: the update or the insert that follows, r being its
   outcome on this.data as it is now; the save of its set comes next. *)
TaskUpsertStores(t, r) ==
    /\ data' = r.tree
    /\ had' = had \cup {r.tree}
    /\ tasks' = [tasks EXCEPT ![t] = IF r.ok THEN [Idle EXCEPT !.pc = "acquireLock"] ELSE Idle]
    /\ last' = Call("upsert", tasks[t].keys, tasks[t].value, [existing |-> tasks[t].currentValue],
                    r)
    /\ UNCHANGED <<file, autoSave, fileLock, tempFile, initialized, dirVars>>

(* if (existing): await this.update(`${tableName}.${existing.id}`, data) *)
TaskUpsertUpdates(t) ==
    /\ At(t, "upsert")
    /\ tasks[t].currentValue # NullV
    /\ TaskUpsertStores(t, update(data, tasks[t].keys \o <<tasks[t].currentValue.str>>,
                                  tasks[t].value))

(* else: await this.insert(tableName, data), with the id it generates *)
TaskUpsertInserts(t, id) ==
    /\ At(t, "upsert")
    /\ tasks[t].currentValue = NullV
    /\ TaskUpsertStores(t, insert(data, tasks[t].keys[1], tasks[t].value, id))

(* set(key, value) on table.rowId, lines 234-245, up to the end of
   `await this.validateTableData(tableName, value)`: the table has a _meta,
   which the call holds from here on; error is what validateTableData
   gave. *)
TaskSetRowChecks(t, keys, value, error) ==
    /\ At(t, "idle") /\ autoSave /\ initialized
    /\ Len(keys) = 2 /\ keys[2] \notin {"", "_meta"}
    /\ MetaKind(data, keys[1]) = "meta"
    /\ tasks' = [tasks EXCEPT ![t] =
                    IF error # "" THEN Idle
                    ELSE Holding("setRow", keys, MetaOf(data, keys[1]), value)]
    /\ last' = Call("set", keys, value, [loaded |-> initialized],
                    IF error # "" THEN Threw(data, error) ELSE Done(data, UndefV))
    /\ UNCHANGED <<data, file, autoSave, fileLock, tempFile, had, initialized, dirVars>>

(* Lines 252-254: if (!this.data[tableName]) this.data[tableName] =
   { _meta: meta }, meta being the object the call read at its start *)
Recreated(tree, tableName, meta) ==
    IF <<tableName>> \in DOMAIN tree THEN tree
    ELSE PutAt(PutAt(tree, <<tableName>>, MapNode(<<>>)), <<tableName, "_meta">>,
               MetaNode(meta))

(* Lines 247-259, after the awaits of encryptValue: r is the outcome of
   storing the row in this.data as it is now; the save comes next. *)
TaskSetRowStored(t, r) ==
    /\ data' = r.tree
    /\ had' = had \cup {r.tree}
    /\ tasks' = [tasks EXCEPT ![t] = [Idle EXCEPT !.pc = "acquireLock"]]
    /\ last' = Call("set", tasks[t].keys, tasks[t].value, [loaded |-> initialized], r)
    /\ UNCHANGED <<file, autoSave, fileLock, tempFile, initialized, dirVars>>

TaskSetRowStores(t) ==
    /\ At(t, "setRow")
    /\ TaskSetRowStored(t, StoreRow("", Recreated(data, tasks[t].keys[1],
                                                  tasks[t].currentValue),
                                    tasks[t].keys, tasks[t].value))

(* A call that reads this.data and returns in one run *)
Read(op, keys, loaded, r) ==
    /\ last' = Call(op, keys, UndefV, [loaded |-> loaded], r)
    /\ UNCHANGED <<data, file, autoSave, initialized>>
    /\ UNCHANGED <<ioVars, dirVars>>

(* keys(): Object.keys(this.data) *)
DoKeys ==
    /\ Read("keys", <<>>, initialized,
            Done(data, ArrV([i \in 1..Len(data[<<>>].keys) |-> StrV(data[<<>>].keys[i])])))

(* get(key) of a call in flight: it awaits ensureInitialized() first. *)
TaskGet(keys) ==
    /\ initialized
    /\ Read("get", keys, initialized, get(data, keys, NullV))

(* init() of the constructor, lines 75-92, up to the end of load(): the
   tree becomes what the file holds, and this.initialized resolves. *)
Load ==
    /\ ~initialized
    /\ data' = file
    /\ had' = had \cup {file}
    /\ initialized' = TRUE
    /\ UNCHANGED <<file, autoSave, last, fileLock, tempFile, tasks, dirVars>>

(* An acquireLock that does not look at the gate. *)
AcquireLock_unchecked(t) ==
    /\ At(t, "acquireLock")
    /\ fileLock' = TRUE
    /\ Goto(t, "serialize")
    /\ UNCHANGED <<data, file, autoSave, last, tempFile, had, initialized, dirVars>>

(* acquireLock(filepath), lines 64-69: the test of the loop and the set
   that follows run with no await between them; while the gate is taken the
   call sleeps and tests again. save() has awaited ensureInitialized()
   before (line 164). *)
AcquireLock(t) ==
    /\ At(t, "acquireLock")
    /\ initialized
    /\ ~fileLock
    /\ fileLock' = TRUE
    /\ Goto(t, "serialize")
    /\ UNCHANGED <<data, file, autoSave, last, tempFile, had, initialized, dirVars>>

(* A save that writes the content to the database file itself. *)
Serialize_direct(t) ==
    /\ At(t, "serialize")
    /\ tasks' = [tasks EXCEPT ![t] = [pc |-> "writeFile", content |-> data, stamp |-> <<>>]]
    /\ file' = Torn
    /\ tempFile' = PartOf(data)
    /\ UNCHANGED <<data, autoSave, last, fileLock, had, initialized, dirVars>>

(* Lines 172-182: the content is made of this.data as it is now, in one
   run, and the write of the temporary file begins. *)
Serialize(t) ==
    /\ At(t, "serialize")
    /\ tasks' = [tasks EXCEPT ![t] = [pc |-> "writeFile", content |-> data, stamp |-> <<>>]]
    /\ tempFile' = PartOf(data)
    /\ UNCHANGED <<data, file, autoSave, last, fileLock, had, initialized, dirVars>>

(* fs.promises.writeFile(tempFile, content) has written all of it. *)
WriteFile(t) ==
    /\ At(t, "writeFile")
    /\ tempFile' = AllOf(tasks[t].content)
    /\ Goto(t, "rename")
    /\ UNCHANGED <<data, file, autoSave, last, fileLock, had, initialized, dirVars>>

(* A save that returns and leaves the gate as it is. *)
ReleaseLock_kept(t) ==
    /\ fileLock' = fileLock
    /\ tasks' = [tasks EXCEPT ![t] = Idle]

(* The finally of line 185 and the throw of line 192 *)
ReleaseLock(t) ==
    /\ fileLock' = FALSE
    /\ tasks' = [tasks EXCEPT ![t] = Idle]

(* writeFile fails: the temporary file keeps the part written. *)
WriteFileFails(t) ==
    /\ At(t, "writeFile")
    /\ ReleaseLock(t)
    /\ UNCHANGED <<data, file, autoSave, last, tempFile, had, initialized, dirVars>>

(* fs.promises.rename(tempFile, this.filePath): in one step the database
   file is what the temporary file was, whole or not. *)
Rename(t) ==
    /\ At(t, "rename")
    /\ tempFile.state # "absent"
    /\ file' = IF tempFile.state = "complete" THEN tempFile.tree ELSE Torn
    /\ tempFile' = NoFile
    /\ Goto(t, "releaseLock")
    /\ UNCHANGED <<data, autoSave, last, fileLock, had, initialized, dirVars>>

(* rename fails. *)
RenameFails(t) ==
    /\ At(t, "rename")
    /\ ReleaseLock(t)
    /\ UNCHANGED <<data, file, autoSave, last, tempFile, had, initialized, dirVars>>

(* save returns. *)
SaveReturns(t) ==
    /\ At(t, "releaseLock")
    /\ ReleaseLock(t)
    /\ UNCHANGED <<data, file, autoSave, last, tempFile, had, initialized, dirVars>>

(***************************************************************************)
(* backup() and cleanOldBackups()                                          *)
(***************************************************************************)
(* A timestamp without padding. *)
Stamp_unpadded(n) == IF n < 10 THEN <<n>> ELSE <<n \div 10, n % 10>>

(* new Date().toISOString().replace(/[:.]/g, '-') for the time n: the
   digits of n in a field of fixed width *)
Stamp(n) == <<n \div 10, n % 10>>

(* The file `backup-${timestamp}.${ext}` of the backups directory *)
BackupName(stamp, ext) == [stamp |-> stamp, ext |-> ext]

(* a < b for two texts of digits, as Array.prototype.sort orders strings:
   the first place where they differ decides, a proper prefix is less. *)
RECURSIVE TextLess(_, _, _)
TextLess(a, b, i) ==
    IF i > Len(a) THEN i <= Len(b)
    ELSE IF i > Len(b) THEN FALSE
    ELSE IF a[i] # b[i] THEN a[i] < b[i]
    ELSE TextLess(a, b, i + 1)

(* Lines 581-584: the backups of the active format; after sort() and
   reverse() a file stands behind the files whose name is greater. *)
OfFormat(dir) == {f \in DOMAIN dir : f.ext = fileFormat}

Behind(dir, f) == Cardinality({g \in OfFormat(dir) : TextLess(f.stamp, g.stamp, 1)})

(* cleanOldBackups(), lines 579-594: backups.slice(this.maxBackups) are
   unlinked when there are more than maxBackups. *)
cleanOldBackups(dir) ==
    [f \in {g \in DOMAIN dir : g.ext # fileFormat \/ Behind(dir, g) < maxBackups} |-> dir[f]]

(* JSON.parse(JSON.stringify(value)) for a value at the top of a backup *)
JsonValue(v) ==
    IF IsNaN(v) THEN NullV
    ELSE IF v.type = "object" /\ v.str = "" THEN JsonCopy(v)
    ELSE v

(* What backup() writes for the top-level key k, lines 508-515: the
   decrypted leaf, or the container as it is, its own leaves still tokens. *)
BackupValue(tree, k) ==
    IF tree[<<k>>].kind = "leaf" THEN decryptValue(StoredOf(tree[<<k>>]))
    ELSE IF tree[<<k>>].kind = "map"
    THEN ObjV([c \in Range(tree[<<k>>].keys) |-> RawNode(tree, <<k, c>>)])
    ELSE MetaV

(* The content of a backup: the top-level keys in their order, each with its
   value; JSON.stringify leaves out a member that is undefined. *)
BackupOf(tree) ==
    [keys |-> SelectSeq(tree[<<>>].keys,
                        LAMBDA k : BackupValue(tree, k).type \notin {"undefined", "function"}),
     values |-> [k \in Range(tree[<<>>].keys) |-> BackupValue(tree, k)]]

(* backup() up to the write of the file: the name is made of the time, the
   content of this.data. *)
BackupBegins(t) ==
    /\ At(t, "idle")
    /\ now < FirstStamp + MaxStamps
    /\ now' = now + 1
    /\ tasks' = [tasks EXCEPT ![t] = [pc |-> "backupWrite", content |-> data,
                                      stamp |-> Stamp(now)]]
    /\ UNCHANGED <<data, file, autoSave, last, fileLock, tempFile, had, initialized, backups>>

(* fs.promises.writeFile(backupPath, backupContent) has made the file. *)
BackupCreates(t) ==
    /\ At(t, "backupWrite")
    /\ backups' = [f \in DOMAIN backups \cup {BackupName(tasks[t].stamp, fileFormat)} |->
                      IF f = BackupName(tasks[t].stamp, fileFormat)
                      THEN [content |-> BackupOf(tasks[t].content), of |-> tasks[t].content]
                      ELSE backups[f]]
    /\ Goto(t, "cleanOldBackups")
    /\ UNCHANGED <<data, file, autoSave, last, fileLock, tempFile, had, initialized, now>>

(* The write has ended: cleanOldBackups() runs and backup() returns. *)
BackupCompletes(t) ==
    /\ At(t, "cleanOldBackups")
    /\ backups' = cleanOldBackups(backups)
    /\ tasks' = [tasks EXCEPT ![t] = Idle]
    /\ last' = Call("backup", <<>>, UndefV, [stamp |-> tasks[t].stamp],
                    Done(data, UndefV))
    /\ UNCHANGED <<data, file, autoSave, fileLock, tempFile, had, initialized, now>>

(* cleanOldBackups() called by itself *)
DoCleanOldBackups ==
    /\ backups' = cleanOldBackups(backups)
    /\ last' = Call("cleanOldBackups", <<>>, UndefV, NoMeta, Done(data, UndefV))
    /\ UNCHANGED <<data, file, autoSave, fileLock, tempFile, tasks, had, initialized, now>>

(***************************************************************************)
(* restoreFromBackup(backupPath)                                           *)
(***************************************************************************)
(* The loop of lines 554-556 over the entries of the parsed backup from the
   i-th on: set(key, value) for each; r is the outcome of the one before. *)
RECURSIVE RestoreEach(_, _, _)
RestoreEach(r, backup, i) ==
    IF ~r.ok THEN Threw(r.tree, "Failed to restore from backup")
    ELSE IF i > Len(backup.keys) THEN Done(r.tree, BoolV(TRUE))
    ELSE RestoreEach(set(r.tree, <<backup.keys[i]>>, JsonValue(backup.values[backup.keys[i]])),
                     backup, i + 1)

(* A restore that begins with an empty tree. *)
restoreFromBackup_replacing(tree, dir, backupPath) ==
    IF backupPath.ext # fileFormat THEN Threw(tree, "Failed to restore from backup")
    ELSE IF backupPath \notin DOMAIN dir THEN Threw(tree, "Failed to restore from backup")
    ELSE RestoreEach(Done(EmptyTree, UndefV), dir[backupPath].content, 1)

(* restoreFromBackup(backupPath), lines 536-563, without the saves of its
   sets: dir is the directory of the file, backupPath its name there. *)
restoreFromBackup(tree, dir, backupPath) ==
    IF backupPath.ext # fileFormat THEN Threw(tree, "Failed to restore from backup")
    ELSE IF backupPath \notin DOMAIN dir THEN Threw(tree, "Failed to restore from backup")
    ELSE RestoreEach(Done(tree, UndefV), dir[backupPath].content, 1)

(* req holds the name of the backup, the tree before the call and the tree
   the backup was made of. *)
DoRestoreFromBackup(backupPath) ==
    /\ \A t \in Tasks : At(t, "idle")
    /\ data' = restoreFromBackup(data, backups, backupPath).tree
    /\ file' = IF autoSave /\ data' # data THEN data' ELSE file
    /\ last' = Call("restoreFromBackup", <<>>, UndefV,
                    [backupPath |-> backupPath, before |-> data,
                     of |-> IF backupPath \in DOMAIN backups THEN backups[backupPath].of
                            ELSE EmptyTree],
                    restoreFromBackup(data, backups, backupPath))
    /\ UNCHANGED <<autoSave, ioVars, initialized, dirVars>>

(* clear() with its save *)
DoClear ==
    /\ \A t \in Tasks : At(t, "idle")
    /\ Saving("clear", <<>>, UndefV, NoMeta, Done(EmptyTree, BoolV(TRUE)))

(***************************************************************************)
(* encryptValue and decryptValue when a step of theirs fails, with          *)
(* this.debug on or off                                                    *)
(***************************************************************************)
(* An object that holds itself: JSON.stringify throws on it. *)
CircularV == [type |-> "object", num |-> 0, str |-> "[circular]", fields |-> NoFields]

(* The values given to the codec *)
CodecValues ==
    {NumV(n) : n \in Numbers} \cup {StrV(CodeUnitOrder[i]) : i \in 1..Len(CodeUnitOrder)}
    \cup {BoolV(TRUE), BoolV(FALSE), NullV, UndefV, NaNV, CircularV} \cup Objects

(* The strings that encryptValue returns *)
Tokens == {CipherV(encryptValue(v)) : v \in CodecValues \ {NullV, UndefV, CircularV}}

(* The catch blocks of lines 206-209 and 227-230:
   this.debug && DatabaseError.warn(...); return value. DatabaseError has a
   static info and no warn, so with debug on the call of warn throws. *)
SoftFail(debug, tree, value) ==
    IF debug THEN Threw(tree, "TypeError: DatabaseError.warn is not a function")
    ELSE Done(tree, value)

(* Whether a step inside the try of encryptValue throws for value *)
EncryptFails(value) == value = CircularV

(* encryptValue(value), lines 196-210 *)
encryptValueIn(debug, tree, value) ==
    IF value.type \in {"null", "undefined"} THEN Done(tree, value)
    ELSE IF EncryptFails(value) THEN SoftFail(debug, tree, value)
    ELSE Done(tree, CipherV(encryptValue(value)))

(* Whether a step inside the try of decryptValue throws for value: it is a
   string with characters that no encryptValue has made. *)
DecryptFails(value) == value.type = "string" /\ value.str # "" /\ value \notin Tokens

(* decryptValue(value), lines 212-232 *)
decryptValueIn(debug, tree, value) ==
    IF ~Truthy(value) \/ value.type # "string" THEN Done(tree, value)
    ELSE IF DecryptFails(value) THEN SoftFail(debug, tree, value)
    ELSE Done(tree, decryptValue(CHOOSE s \in {encryptValue(v) : v \in CodecValues} :
                                    s.tok /\ CipherV(s) = value))

(* The leaf that load() makes of the value v of a file *)
LoadedLeaf(v) ==
    IF v \in Tokens
    THEN LeafNode(CHOOSE s \in {encryptValue(x) : x \in CodecValues} : s.tok /\ CipherV(s) = v)
    ELSE LeafNode(Raw(v))

(* get(key) of a top-level leaf, lines 304-314: decryptValue(current) *)
getLeafIn(debug, tree, k) ==
    IF <<k>> \notin DOMAIN tree THEN Done(tree, NullV)
    ELSE decryptValueIn(debug, tree, RawNode(tree, <<k>>))

DoEncryptValue(debug, value) ==
    /\ Reading("encryptValue", <<>>, [debug |-> debug, failed |-> EncryptFails(value),
                                       input |-> value],
               encryptValueIn(debug, data, value))

DoDecryptValue(debug, value) ==
    /\ Reading("decryptValue", <<>>, [debug |-> debug, failed |-> DecryptFails(value),
                                       input |-> value],
               decryptValueIn(debug, data, value))

(* load() of a file {"a": v} that another program wrote *)
DoLoadLeaf(v) ==
    /\ data' = PutAt(EmptyTree, <<"a">>, LoadedLeaf(v))
    /\ file' = data'
    /\ last' = Call("load", <<>>, UndefV, NoMeta, Done(data', BoolV(TRUE)))
    /\ UNCHANGED <<autoSave, ioVars, initialized, dirVars>>

DoGetLeaf(debug, k) ==
    /\ <<k>> \in DOMAIN data
    /\ Reading("get", <<k>>, [debug |-> debug, failed |-> DecryptFails(RawNode(data, <<k>>)),
                              input |-> RawNode(data, <<k>>)],
               getLeafIn(debug, data, k))

(***************************************************************************)
(* save() and load() of the formats                                        *)
(***************************************************************************)
(* A file of nothing but blanks *)
Blank == [state |-> "empty", tree |-> EmptyTree]

(* load(), lines 136-161, of a file with the content given: the parsed
   tree for json, the empty tree for sql, for a file that is absent and for
   one that is blank. *)
Loaded(format, content) ==
    IF content.state \in {"absent", "empty"} THEN EmptyTree
    ELSE IF format = "json" THEN content.tree
    ELSE EmptyTree

(* save() of a database of the format given, then load() by a new instance
   on the same file *)
DoSaveAndLoad(format) ==
    /\ \A t \in Tasks : At(t, "idle")
    /\ file' = Serialized(format, data)
    /\ data' = Loaded(format, AllOf(Serialized(format, data)))
    /\ last' = Call("load", <<format>>, UndefV, [saved |-> data, content |-> "saved"],
                    Done(data', BoolV(TRUE)))
    /\ UNCHANGED <<autoSave, ioVars, initialized, dirVars>>

(* load() by a new instance when the file is absent or empty *)
DoLoadNothing(format, content) ==
    /\ \A t \in Tasks : At(t, "idle")
    /\ file' = EmptyTree
    /\ data' = Loaded(format, content)
    /\ last' = Call("load", <<format>>, UndefV, [saved |-> data, content |-> content.state],
                    Done(data', BoolV(TRUE)))
    /\ UNCHANGED <<autoSave, ioVars, initialized, dirVars>>

(***************************************************************************)
(* delete and bulkDelete with a where                                      *)
(***************************************************************************)
(* bulkDelete(tableName, where), lines 1048-1056: each id found is handed
   to super.delete, which a class that extends nothing does not have. The
   value returned is modelled by its deletedCount. *)
bulkDelete(results, tree) ==
    IF ~results.ok THEN Threw(tree, results.err)
    ELSE IF results.ids = <<>> THEN Done(tree, NumV(0))
    ELSE Threw(tree, "TypeError")

(* delete(tableName, where): the value returned is modelled by its
   deletedCount; no save is reached. *)
DoDeleteWhere(tableName, where) ==
    /\ data' = delete(data, <<tableName>>, TRUE, where).tree
    /\ last' = Call("delete", <<tableName>>, UndefV, [where |-> where],
                    delete(data, <<tableName>>, TRUE, where))
    /\ UNCHANGED <<file, autoSave>>
    /\ UNCHANGED <<ioVars, initialized, dirVars>>

DoBulkDelete(tableName, where) ==
    /\ data' = data
    /\ last' = Call("bulkDelete", <<tableName>>, UndefV, [where |-> where],
                    bulkDelete(query(data, <<tableName>>, where), data))
    /\ UNCHANGED <<file, autoSave>>
    /\ UNCHANGED <<ioVars, initialized, dirVars>>

(* The changes a throwing alterTable had made stay in memory; the file
   receives the tree only when the call completes. *)
DoAlterTable(tableName, a) ==
    /\ Saving("alterTable", <<tableName>>, UndefV, a, alterTable(data, tableName, a))

(***************************************************************************)
(* The path store: set, get and delete over generic paths                  *)
(***************************************************************************)
PathKeys == {<<"a">>, <<"a", "b">>, <<"a", "b", "c">>, <<"a", "_meta">>}

PathValues ==
    {NumV(n) : n \in 1..MaxNum} \cup {StrV(NumToStr(n)) : n \in 1..MaxNum}
    \cup {StrV("abc"), BoolV(TRUE), NullV, UndefV} \cup Objects
    \cup {StrV(JSONStringify(o)) : o \in Objects}

Defaults == {StrV("dflt")}

Next ==
    \/ \E v \in PathValues : DoCodec(v)
    \/ \E k \in PathKeys, v \in PathValues : DoSet(k, v)
    \/ \E k \in PathKeys, d \in Defaults : DoGet(k, d)
    \/ \E k \in PathKeys, w \in BOOLEAN : DoDelete(k, w)

Spec == Init /\ [][Next]_vars

(***************************************************************************)
(* The table engine: createTable and validated row writes                  *)
(***************************************************************************)
NoRule(col) == Rule(col, "", FALSE, 0, FALSE, 0, "", FALSE, <<>>)

TableArgs(name, columns, validations, indexes, relations) ==
    [name |-> name, columns |-> columns, validations |-> validations, indexes |-> indexes,
     relations |-> relations]

(* u: the target of the relation; its columns are given twice. *)
TargetTable == TableArgs("u", <<"name", "name">>, <<>>, <<>>, <<>>)

(* t with typed rules, an index and a relation to u *)
TypedTable ==
    TableArgs("t", <<"name", "age", "gid">>,
              <<Rule("name", "string", FALSE, 0, FALSE, 0, "^[A-Za-z]+$", FALSE, <<>>),
                Rule("age", "number", TRUE, 1, TRUE, MaxNum, "", FALSE, <<>>)>>,
              <<"name">>, <<Relation("gid", "u", "name")>>)

(* t with rules that declare no type: min, max, pattern and enum alone *)
UntypedTable ==
    TableArgs("t", <<"name", "age">>,
              <<Rule("age", "", TRUE, 1, TRUE, MaxNum, "", FALSE, <<>>),
                Rule("name", "", FALSE, 0, FALSE, 0, "^[A-Za-z]+$", TRUE,
                     <<StrV("John"), StrV("1")>>)>>,
              <<>>, <<>>)

(* t with a column named as a property of Object.prototype *)
InheritedNameTable ==
    TableArgs("t", <<"name", "constructor">>, <<NoRule("constructor")>>, <<>>, <<>>)

RejectedTables ==
    {TableArgs("9x", <<"name">>, <<>>, <<>>, <<>>),
     TableArgs("t", <<"name", "9x">>, <<>>, <<>>, <<>>),
     TableArgs("t", <<>>, <<>>, <<>>, <<>>),
     TableArgs("t", <<"name">>, <<NoRule("zzz")>>, <<>>, <<>>),
     TableArgs("t", <<"name">>, <<Rule("name", "date", FALSE, 0, FALSE, 0, "", FALSE, <<>>)>>,
               <<>>, <<>>),
     TableArgs("t", <<"name">>, <<>>, <<"zzz">>, <<>>),
     TableArgs("t", <<"name">>, <<>>, <<>>, <<Relation("zzz", "u", "name")>>),
     TableArgs("t", <<"name", "gid">>, <<>>, <<>>, <<Relation("gid", "v", "name")>>),
     TableArgs("t", <<"name", "gid">>, <<>>, <<>>, <<Relation("gid", "u", "zzz")>>)}

Tables == {TargetTable, TypedTable, UntypedTable, InheritedNameTable} \cup RejectedTables

Row3(name, age, gid) == ObjV([name |-> name, age |-> age, gid |-> gid])
Row2(name, age) == ObjV([name |-> name, age |-> age])

John == StrV("John")

TableRows ==
    {Row3(John, NumV(1), StrV("g1")),
     Row3(John, NumV(1), StrV("g9")),
     Row3(John, NumV(1), StrV("_meta")),
     Row3(John, NumV(1), UndefV),
     Row3(John, NumV(0), StrV("g1")),
     Row3(John, NumV(MaxNum + 1), StrV("g1")),
     Row3(John, StrV("1"), StrV("g1")),
     Row3(John, NullV, StrV("g1")),
     Row3(StrV("1"), NumV(1), StrV("g1")),
     ObjV([name |-> John, age |-> NumV(1), gid |-> StrV("g1"), zzz |-> NumV(1)]),
     ObjV([name |-> StrV("1"), gid |-> StrV("g9"), zzz |-> NumV(1)]),
     Row2(John, NumV(1)),
     Row2(John, NumV(0)),
     Row2(StrV("1"), NumV(1)),
     Row2(StrV("abc"), NumV(1)),
     ObjV([name |-> John]),
     ObjV([name |-> John, constructor |-> StrV("abc")]),
     NumV(1)}

(* Rows are written to a name the store holds: t.r1 takes every row above,  *)
(* u.g1 the row the relation refers to.                                     *)
Holds(name) == <<name>> \in DOMAIN data

NextTable ==
    \/ \E a \in Tables :
          DoCreateTable(a.name, a.columns, a.validations, a.indexes, a.relations)
    \/ \E row \in TableRows : Holds("t") /\ DoSet(<<"t", "r1">>, row)
    \/ Holds("u") /\ DoSet(<<"u", "g1">>, ObjV([name |-> John]))
    \/ DoSet(<<"u">>, NumV(1))
    \/ \E n \in {"t", "u"} : DoDropTable(n)

SpecTable == Init /\ [][NextTable]_vars

(***************************************************************************)
(* The row operations on one table                                         *)
(***************************************************************************)
RowsTable ==
    TableArgs("t", <<"name", "age">>,
              <<Rule("name", "string", FALSE, 0, FALSE, 0, "", FALSE, <<>>),
                Rule("age", "number", TRUE, 1, FALSE, 0, "", FALSE, <<>>)>>, <<"name">>, <<>>)

RowValues ==
    {Row2(John, NumV(1)), Row2(StrV("abc"), NumV(1)), Row2(John, NumV(0)),
     Row2(StrV("1"), NumV(1))}

RowLists ==
    {<<Row2(John, NumV(1)), Row2(StrV("abc"), NumV(1))>>,
     <<Row2(John, NumV(1)), Row2(John, NumV(0))>>,
     <<Row2(John, NumV(0)), Row2(John, NumV(1))>>}

Updates == {ObjV([name |-> StrV("abc")]), ObjV([age |-> NumV(0)]), ObjV([age |-> NumV(1)])}

NextRows ==
    \/ DoCreateTable(RowsTable.name, RowsTable.columns, RowsTable.validations,
                     RowsTable.indexes, RowsTable.relations)
    \/ \E id \in RowIds, row \in RowValues : DoSet(<<"t", id>>, row)
    \/ DoSet(<<"t", "r1", "name">>, John)
    \/ \E row \in RowValues : DoInsert("t", row)
    \/ \E rows \in RowLists : DoInsertMany("t", rows)
    \/ \E id \in RowIds, u \in Updates : DoUpdate(<<"t", id>>, u)
    \/ \E row \in RowValues, uc \in {<<>>, <<"name">>} : DoUpsert("t", row, uc)
    \/ DoTruncate("t")
    \/ \E k \in {<<"t">>, <<"t", "r1">>} : DoDelete(k, TRUE)
    \/ DoDropTable("t")

SpecRows == Init /\ [][NextRows]_vars

(***************************************************************************)
(* alterTable on a table with rows                                         *)
(***************************************************************************)
AlterArgs(addColumns, dropColumns, modifyValidations, addIndexes, dropIndexes) ==
    [addColumns |-> addColumns, dropColumns |-> dropColumns,
     modifyValidations |-> modifyValidations, addIndexes |-> addIndexes,
     dropIndexes |-> dropIndexes]

Alterations ==
    {AlterArgs(<<"zzz">>, <<>>, <<>>, <<>>, <<>>),
     AlterArgs(<<"zzz", "name">>, <<>>, <<>>, <<>>, <<>>),
     AlterArgs(<<"9x">>, <<>>, <<>>, <<>>, <<>>),
     AlterArgs(<<>>, <<"age">>, <<>>, <<>>, <<>>),
     AlterArgs(<<>>, <<"zzz">>, <<>>, <<>>, <<>>),
     AlterArgs(<<>>, <<"age", "zzz">>, <<>>, <<>>, <<>>),
     AlterArgs(<<"zzz">>, <<"age">>, <<>>, <<"zzz">>, <<"name">>),
     AlterArgs(<<>>, <<>>, <<Rule("age", "number", FALSE, 0, TRUE, MaxNum, "", FALSE, <<>>)>>,
               <<"age">>, <<>>),
     AlterArgs(<<>>, <<>>, <<NoRule("zzz")>>, <<>>, <<>>)}

AlterRows ==
    {Row2(John, NumV(1)), Row2(StrV("abc"), NumV(MaxNum + 1)), ObjV([name |-> John]),
     ObjV([name |-> John, zzz |-> NumV(1)])}

NextAlter ==
    \/ DoCreateTable(RowsTable.name, RowsTable.columns, RowsTable.validations,
                     RowsTable.indexes, RowsTable.relations)
    \/ \E row \in AlterRows : Holds("t") /\ DoSet(<<"t", "r1">>, row)
    \/ Holds("t") /\ DoSet(<<"t", "r2">>, Row2(John, NumV(1)))
    \/ \E a \in Alterations : DoAlterTable("t", a)
    \/ DoDropTable("t")

SpecAlter == Init /\ [][NextAlter]_vars

(***************************************************************************)
(* Queries on a table with rows                                            *)
(***************************************************************************)
Op(op, operand) == ObjV([o \in {op} |-> operand])

Op2(op1, operand1, op2, operand2) ==
    ObjV([o \in {op1, op2} |-> IF o = op1 THEN operand1 ELSE operand2])

Wheres ==
    {<<Cond("name", John)>>,
     <<Cond("name", John), Cond("age", NumV(1))>>,
     <<Cond("age", StrV("1"))>>,
     <<Cond("age", Op("$eq", NumV(1)))>>,
     <<Cond("age", Op("$ne", NumV(1)))>>,
     <<Cond("age", Op("$gt", NumV(1)))>>,
     <<Cond("age", Op2("$gte", NumV(1), "$lte", NumV(MaxNum)))>>,
     <<Cond("age", Op("$lt", NumV(MaxNum + 1)))>>,
     <<Cond("name", Op("$in", ArrV(<<John, StrV("Zoe")>>)))>>,
     <<Cond("name", Op("$nin", ArrV(<<John>>))), Cond("age", Op("$gte", NumV(1)))>>,
     <<Cond("name", Op("$gt", NumV(1)))>>,
     <<Cond("zzz", Op("$lt", NumV(1)))>>,
     <<Cond("name", NullV)>>}

(* The rows written: r1 takes either of two rows, r2 and r3 one each. *)
QueryWrites ==
    {<<"r1", Row2(John, NumV(1))>>, <<"r1", Row2(StrV("abc"), NumV(MaxNum + 1))>>,
     <<"r2", Row2(StrV("abc"), NumV(1))>>, <<"r3", Row2(John, NumV(MaxNum + 1))>>}

Queries ==
    {QueryOptions(w, <<>>, NullV, NumV(0)) : w \in Wheres}
    \cup {QueryOptions(<<>>, o, NullV, NumV(0)) :
             o \in {<<"age">>, <<"age", "desc">>, <<"name", "asc">>, <<"name", "desc">>}}
    \cup {QueryOptions(<<>>, <<"age", "desc">>, l, f) :
             l \in {NullV, NumV(0), NumV(1), NumV(2)}, f \in {NumV(0), NumV(1), NumV(2)}}
    \cup {QueryOptions(<<Cond("age", Op("$gte", NumV(1)))>>, <<"name">>, NumV(1), NumV(1))}

OrderColumn(column, direction) == [column |-> column, direction |-> direction]

OrderOptions(columns, where, limit, offset) ==
    [columns |-> columns, where |-> where, limit |-> limit, offset |-> offset]

Orderings ==
    {OrderOptions(<<OrderColumn("age", "desc"), OrderColumn("name", "asc")>>, <<>>, NullV, NumV(0)),
     OrderOptions(<<OrderColumn("name", "asc"), OrderColumn("age", "asc")>>, <<>>, NullV, NumV(0)),
     OrderOptions(<<OrderColumn("name", "desc")>>, <<Cond("age", NumV(1))>>, NullV, NumV(0)),
     OrderOptions(<<OrderColumn("age", "asc"), OrderColumn("name", "desc")>>, <<>>, NumV(1),
                  NumV(1)),
     OrderOptions(<<>>, <<>>, NullV, NumV(0))}

NextQuery ==
    \/ DoCreateTable(RowsTable.name, RowsTable.columns, RowsTable.validations,
                     RowsTable.indexes, RowsTable.relations)
    \/ \E w \in QueryWrites : Holds("t") /\ DoSet(<<"t", w[1]>>, w[2])
    \/ \E q \in Queries : DoQuery("t", q)
    \/ \E q \in Orderings : DoOrderByMultiple("t", q)
    \/ DoDropTable("t")

SpecQuery == Init /\ [][NextQuery]_vars

(***************************************************************************)
(* groupBy on a table with rows                                            *)
(***************************************************************************)
(* t with a rule for age alone: name takes any value. *)
GroupTable ==
    TableArgs("t", <<"name", "age">>,
              <<Rule("age", "number", TRUE, 1, FALSE, 0, "", FALSE, <<>>)>>, <<>>, <<>>)

GroupWrites ==
    {<<"r1", Row2(John, NumV(1))>>, <<"r1", Row2(NullV, NumV(1))>>,
     <<"r2", Row2(John, NumV(MaxNum + 1))>>, <<"r2", Row2(StrV(""), NumV(MaxNum + 1))>>,
     <<"r3", Row2(StrV("abc"), NumV(1))>>}

Havings ==
    {NoHaving,
     Having(<<Cond("count", NumV(1))>>),
     Having(<<Cond("count", Op("$gt", NumV(1)))>>),
     Having(<<Cond("count", Op("$lt", NumV(2)))>>),
     Having(<<Cond("count", Op("$eq", NumV(2)))>>),
     Having(<<Cond("name", John), Cond("count", Op("$ne", NumV(1)))>>),
     Having(<<Cond("sum_age", Op2("$gte", NumV(2), "$lte", NumV(MaxNum + 2)))>>),
     Having(<<Cond("count", Op("$in", ArrV(<<NumV(2)>>)))>>),
     Having(<<Cond("count", Op("$nin", ArrV(<<NumV(1)>>)))>>)}

GroupQueries ==
    {GroupOptions(<<"name">>, <<>>, h) : h \in Havings}
    \cup {GroupOptions(c, <<>>, NoHaving) : c \in {<<"age">>, <<"name", "age">>, <<>>}}
    \cup {GroupOptions(<<"name">>, <<Cond("age", Op("$gte", NumV(MaxNum + 1)))>>, NoHaving),
          GroupOptions(<<"age">>, <<>>, Having(<<Cond("count", Op("$gte", NumV(2)))>>))}

UnionQueries ==
    {<<UnionQuery("t", <<"name">>, <<>>), UnionQuery("t", <<"name">>, <<Cond("age", NumV(1))>>)>>,
     <<UnionQuery("t", <<"*">>, <<>>), UnionQuery("t", <<"*">>, <<Cond("name", John)>>)>>,
     <<UnionQuery("t", <<"name", "age">>, <<>>), UnionQuery("t", <<"age">>, <<>>)>>,
     <<UnionQuery("t", <<"name">>, <<>>)>>}

DistinctColumns == {<<"name">>, <<"age">>, <<"name", "age">>, <<>>}

NextGroup ==
    \/ DoCreateTable(GroupTable.name, GroupTable.columns, GroupTable.validations,
                     GroupTable.indexes, GroupTable.relations)
    \/ \E w \in GroupWrites : Holds("t") /\ DoSet(<<"t", w[1]>>, w[2])
    \/ \E q \in GroupQueries : DoGroupBy("t", q)
    \/ \E qs \in UnionQueries : DoUnion(qs)
    \/ \E qs \in UnionQueries : DoUnionAll(qs)
    \/ \E c \in DistinctColumns : DoDistinct("t", c, <<>>)
    \/ DoDropTable("t")

SpecGroup == Init /\ [][NextGroup]_vars

(***************************************************************************)
(* join of two tables with rows                                            *)
(***************************************************************************)
(* u as the join table, without and with a column named id *)
JoinTable == TableArgs("u", <<"name">>, <<>>, <<>>, <<>>)

JoinTableWithId == TableArgs("u", <<"id", "name">>, <<>>, <<>>, <<>>)

JoinWrites ==
    {<<"t", "r1", Row2(John, NumV(1))>>, <<"t", "r1", Row2(StrV("abc"), NumV(1))>>,
     <<"t", "r2", Row2(John, NumV(MaxNum + 1))>>,
     <<"u", "g1", ObjV([name |-> John])>>,
     <<"u", "g1", ObjV([id |-> StrV("k1"), name |-> John])>>,
     <<"u", "g2", ObjV([name |-> John])>>,
     <<"u", "g2", ObjV([name |-> StrV("Zoe")])>>}

Joins ==
    {JoinOptions("name", "name", type, <<"*">>) : type \in {"INNER", "LEFT", "OUTER"}}
    \cup {JoinOptions("name", "name", "LEFT", <<"name", "u_name">>),
          JoinOptions("name", "", "INNER", <<"*">>)}

NextJoin ==
    \/ \E a \in {RowsTable, JoinTable, JoinTableWithId} :
          DoCreateTable(a.name, a.columns, a.validations, a.indexes, a.relations)
    \/ \E w \in JoinWrites : Holds(w[1]) /\ DoSet(<<w[1], w[2]>>, w[3])
    \/ \E q \in Joins : DoJoin("t", "u", q)
    \/ DoDropTable("u")

SpecJoin == Init /\ [][NextJoin]_vars

(***************************************************************************)
(* The query operations on a table with rows                               *)
(***************************************************************************)
ReadWheres == {<<>>, <<Cond("name", John)>>, <<Cond("age", Op("$gt", NumV(1)))>>}

AggregateFunction(name, column, alias) == [name |-> name, column |-> column, alias |-> alias]

AggregateFunctions ==
    {<<AggregateFunction("sum", "age", ""), AggregateFunction("avg", "age", "mean")>>,
     <<AggregateFunction("min", "age", ""), AggregateFunction("max", "age", ""),
       AggregateFunction("count", "*", "n"), AggregateFunction("count", "name", "n")>>,
     <<AggregateFunction("sum", "name", "")>>}

NextRead ==
    \/ DoCreateTable(RowsTable.name, RowsTable.columns, RowsTable.validations,
                     RowsTable.indexes, RowsTable.relations)
    \/ \E w \in QueryWrites : Holds("t") /\ DoSet(<<"t", w[1]>>, w[2])
    \/ DoDropTable("t")
    \/ \E w \in ReadWheres : DoQuery("t", QueryOptions(w, <<"age", "desc">>, NumV(1), NumV(0)))
    \/ \E w \in ReadWheres : DoSelect("t", <<"name">>, w)
    \/ \E id \in {"r1", "r3"} : DoFindById("t", id)
    \/ \E w \in ReadWheres : DoFindOne("t", w)
    \/ \E w \in ReadWheres : DoCount("t", w)
    \/ \E w \in ReadWheres : DoExists("t", w)
    \/ \E w \in ReadWheres :
          DoFindAndCount("t", QueryOptions(w, <<"name">>, NumV(1), NumV(1)))
    \/ \E ids \in {<<"r1", "r2">>, <<"r3", "r9">>, <<>>} : DoFindByIds("t", ids)
    \/ \E inclusive \in BOOLEAN, column \in {"age", ""} :
          DoBetween("t", column, NumV(1), NumV(MaxNum + 1), inclusive)
    \/ \E pattern \in {"%", "j%", "ABC", "_", ""} : DoLike("t", "name", pattern)
    \/ \E values \in {<<John>>, <<NumV(1), StrV("abc")>>} : DoIn("t", "name", values)
    \/ \E values \in {<<John>>, <<NumV(1), StrV("abc")>>} : DoNotIn("t", "name", values)
    \/ \E f \in AggregateFunctions, w \in {<<>>, <<Cond("name", John)>>} :
          DoAggregate("t", f, w)
    \/ \E c \in {<<"name">>, <<"name", "age">>} : DoDistinct("t", c, <<>>)
    \/ DoGroupBy("t", GroupOptions(<<"name">>, <<>>, NoHaving))
    \/ \E type \in {"INNER", "OUTER"} :
          DoJoin("t", "t", JoinOptions("name", "name", type, <<"*">>))
    \/ \E qs \in {<<UnionQuery("t", <<"name">>, <<>>), UnionQuery("t", <<"*">>, <<>>)>>,
                  <<UnionQuery("t", <<"name">>, <<>>)>>} : DoUnion(qs)
    \/ DoUnionAll(<<UnionQuery("t", <<"age">>, <<>>), UnionQuery("t", <<"age">>, <<>>)>>)
    \/ DoOrderByMultiple("t", OrderOptions(<<OrderColumn("age", "desc"),
                                             OrderColumn("name", "asc")>>, <<>>, NullV, NumV(0)))

SpecRead == Init /\ [][NextRead]_vars

(***************************************************************************)
(* Calls in flight that change the tree and save                           *)
(***************************************************************************)
NextSave ==
    \/ \E t \in Tasks, value \in {NumV(0), NumV(1)} : TaskSet(t, <<"a">>, value)
    \/ \E t \in Tasks : TaskClear(t)
    \/ \E t \in Tasks : AcquireLock(t)
    \/ \E t \in Tasks : Serialize(t)
    \/ \E t \in Tasks : WriteFile(t)
    \/ \E t \in Tasks : WriteFileFails(t)
    \/ \E t \in Tasks : Rename(t)
    \/ \E t \in Tasks : RenameFails(t)
    \/ \E t \in Tasks : SaveReturns(t)

SpecSave == Init /\ [][NextSave]_vars

(* The steps of the save of one call. A call that waits at the gate tests it
   every 100 ms (line 66) and the event loop runs every continuation that is
   ready, so a step that stays possible is taken. *)
SaveStep(t) ==
    \/ AcquireLock(t)
    \/ Serialize(t)
    \/ WriteFile(t)
    \/ WriteFileFails(t)
    \/ Rename(t)
    \/ RenameFails(t)
    \/ SaveReturns(t)

SpecSaveFair == SpecSave /\ \A t \in Tasks : WF_vars(SaveStep(t))

(***************************************************************************)
(* Calls made right after construction, while init() is under way          *)
(***************************************************************************)
(* The trees the file may hold when the database is constructed *)
FilesAtStart ==
    {EmptyTree, set(EmptyTree, <<"a">>, NumV(1)).tree,
     createTable(EmptyTree, RowsTable.name, RowsTable.columns, RowsTable.validations,
                 RowsTable.indexes, RowsTable.relations).tree}

(* The constructor has returned: this.data = {}, init() has begun. *)
InitConstructed ==
    /\ data = EmptyTree
    /\ file \in FilesAtStart
    /\ autoSave = TRUE
    /\ last = Call("new", <<>>, UndefV, [loaded |-> FALSE], Done(EmptyTree, UndefV))
    /\ fileLock = FALSE
    /\ tempFile = NoFile
    /\ tasks = [t \in Tasks |-> Idle]
    /\ had = {EmptyTree}
    /\ initialized = FALSE
    /\ backups = NoBackups
    /\ now = FirstStamp

NextConstructed ==
    \/ Load
    \/ \E t \in Tasks : TaskSet(t, <<"a">>, NumV(0))
    \/ \E t \in Tasks : TaskClear(t)
    \/ \E t \in Tasks : TaskDropTable(t, "t")
    \/ DoKeys
    \/ \E keys \in {<<"a">>, <<"t", "_meta">>} : TaskGet(keys)
    \/ \E t \in Tasks : AcquireLock(t)
    \/ \E t \in Tasks : Serialize(t)
    \/ \E t \in Tasks : WriteFile(t)
    \/ \E t \in Tasks : WriteFileFails(t)
    \/ \E t \in Tasks : Rename(t)
    \/ \E t \in Tasks : RenameFails(t)
    \/ \E t \in Tasks : SaveReturns(t)

SpecConstructed == InitConstructed /\ [][NextConstructed]_vars

(***************************************************************************)
(* Backups in flight, by call and by the timer of startAutoBackup          *)
(***************************************************************************)
NextBackup ==
    \/ \E t \in Tasks : BackupBegins(t)
    \/ \E t \in Tasks : BackupCreates(t)
    \/ \E t \in Tasks : BackupCompletes(t)
    \/ DoCleanOldBackups

SpecBackup == Init /\ [][NextBackup]_vars

(***************************************************************************)
(* Backup, clear and restore                                               *)
(***************************************************************************)
RestoreWrites == {<<<<"a">>, NumV(1)>>, <<<<"a">>, NullV>>}

RestorePaths == {BackupName(Stamp(n), ext) : n \in FirstStamp..(FirstStamp + 1),
                                              ext \in {"json", "yml"}}

NextRestore ==
    \/ \E w \in RestoreWrites : (\A t \in Tasks : At(t, "idle")) /\ DoSet(w[1], w[2])
    \/ /\ \A t \in Tasks : At(t, "idle")
       /\ DoCreateTable(JoinTable.name, JoinTable.columns, JoinTable.validations,
                        JoinTable.indexes, JoinTable.relations)
    \/ /\ (\A t \in Tasks : At(t, "idle")) /\ Holds("u")
       /\ DoSet(<<"u", "r1">>, ObjV([name |-> John]))
    \/ now < FirstStamp + 2 /\ BackupBegins("a")
    \/ BackupCreates("a")
    \/ BackupCompletes("a")
    \/ DoClear
    \/ \E p \in RestorePaths : DoRestoreFromBackup(p)

SpecRestore == Init /\ [][NextRestore]_vars

(***************************************************************************)
(* The codec with failing steps                                            *)
(***************************************************************************)
NextCodec ==
    \/ \E debug \in BOOLEAN, value \in CodecValues : DoEncryptValue(debug, value)
    \/ \E debug \in BOOLEAN, value \in CodecValues \cup Tokens : DoDecryptValue(debug, value)
    \/ \E v \in (CodecValues \ {UndefV, NaNV, CircularV}) \cup Tokens : DoLoadLeaf(v)
    \/ \E debug \in BOOLEAN : DoGetLeaf(debug, "a")

SpecCodec == Init /\ [][NextCodec]_vars

(***************************************************************************)
(* Trees that are saved and loaded again                                   *)
(***************************************************************************)
PersistWrites ==
    {<<<<"a">>, NumV(1)>>, <<<<"a">>, NullV>>, <<<<"a">>, UndefV>>, <<<<"gid">>, John>>,
     <<<<"zzz", "a">>, BoolV(TRUE)>>, <<<<"u", "r1">>, ObjV([name |-> John])>>}

Formats == {"json", "sql"}

NextPersist ==
    \/ \E w \in PersistWrites : DoSet(w[1], w[2])
    \/ DoCreateTable(JoinTable.name, JoinTable.columns, JoinTable.validations,
                     JoinTable.indexes, JoinTable.relations)
    \/ \E format \in Formats : DoSaveAndLoad(format)
    \/ \E format \in Formats, content \in {NoFile, Blank} : DoLoadNothing(format, content)

SpecPersist == Init /\ [][NextPersist]_vars

(***************************************************************************)
(* Rows deleted by a where                                                 *)
(***************************************************************************)
DeleteWheres ==
    {<<>>, <<Cond("name", John)>>, <<Cond("name", StrV("abc"))>>,
     <<Cond("name", StrV("zzz"))>>}

NextDelete ==
    \/ DoCreateTable(RowsTable.name, RowsTable.columns, RowsTable.validations,
                     RowsTable.indexes, RowsTable.relations)
    \/ \E id \in RowIds, row \in RowValues : Holds("t") /\ DoSet(<<"t", id>>, row)
    \/ \E where \in DeleteWheres : DoDeleteWhere("t", where)
    \/ \E where \in DeleteWheres : DoBulkDelete("t", where)

SpecDelete == Init /\ [][NextDelete]_vars

(***************************************************************************)
(* createTable and alterTable on tables with rules, indexes and relations  *)
(***************************************************************************)
MetaAlterations ==
    {AlterArgs(<<"zzz">>, <<>>, <<NoRule("zzz")>>, <<"zzz", "zzz">>, <<>>),
     AlterArgs(<<"zzz", "zzz">>, <<>>, <<>>, <<>>, <<>>),
     AlterArgs(<<>>, <<"name">>, <<>>, <<>>, <<>>),
     AlterArgs(<<>>, <<"age">>, <<>>, <<"age">>, <<>>),
     AlterArgs(<<>>, <<"gid">>, <<>>, <<>>, <<>>),
     AlterArgs(<<>>, <<"zzz">>, <<NoRule("zzz")>>, <<>>, <<>>),
     AlterArgs(<<>>, <<>>, <<NoRule("age")>>, <<"age", "name">>, <<"name">>),
     AlterArgs(<<>>, <<>>, <<>>, <<"gid", "gid">>, <<"zzz">>)}

NextMeta ==
    \/ \E a \in Tables :
          DoCreateTable(a.name, a.columns, a.validations, a.indexes, a.relations)
    \/ \E a \in MetaAlterations : DoAlterTable("t", a)
    \/ \E n \in {"t", "u"} : DoDropTable(n)

SpecMeta == Init /\ [][NextMeta]_vars

(***************************************************************************)
(* Calls that change the tree and save, no step of a save failing          *)
(***************************************************************************)
QuiesceAlterations ==
    {AlterArgs(<<"zzz">>, <<>>, <<>>, <<>>, <<>>),
     AlterArgs(<<"zzz", "name">>, <<>>, <<>>, <<>>, <<>>)}

NextQuiesce ==
    \/ \E t \in Tasks : TaskSet(t, <<"a">>, NumV(1))
    \/ \E t \in Tasks : TaskClear(t)
    \/ \E t \in Tasks : TaskCreateTable(t, RowsTable)
    \/ \E t \in Tasks, a \in QuiesceAlterations : TaskAlterTable(t, "t", a)
    \/ \E t \in Tasks : AcquireLock(t)
    \/ \E t \in Tasks : Serialize(t)
    \/ \E t \in Tasks : WriteFile(t)
    \/ \E t \in Tasks : Rename(t)
    \/ \E t \in Tasks : SaveReturns(t)

SpecQuiesce == Init /\ [][NextQuiesce]_vars

(***************************************************************************)
(* Calls of increment on one key, in flight together                       *)
(***************************************************************************)
(* The counter is incremented while it is below the largest number of the
   model. *)
NextCounter ==
    \/ \E t \in Tasks :
          /\ get(data, <<"a">>, NumV(0)).ret.num < MaxNum + 1
          /\ TaskAddGets(t, <<"a">>, NumV(1), get(data, <<"a">>, NumV(0)))
    \/ \E t \in Tasks : TaskAddSets(t)
    \/ \E t \in Tasks : AcquireLock(t)
    \/ \E t \in Tasks : Serialize(t)
    \/ \E t \in Tasks : WriteFile(t)
    \/ \E t \in Tasks : Rename(t)
    \/ \E t \in Tasks : SaveReturns(t)

SpecCounter == Init /\ [][NextCounter]_vars

(***************************************************************************)
(* Calls of upsert with unique columns, in flight together                 *)
(***************************************************************************)
UpsertRows == {Row2(John, NumV(1)), Row2(StrV("abc"), NumV(1))}

UpsertWhere(row, uniqueColumns) ==
    [i \in 1..Len(uniqueColumns) |-> Cond(uniqueColumns[i], JsRead(row, uniqueColumns[i]))]

NextUpsert ==
    \/ \E t \in Tasks : TaskCreateTable(t, RowsTable)
    \/ \E t \in Tasks, row \in UpsertRows :
          TaskUpsertFinds(t, "t", row, <<"name">>,
                          query(data, <<"t">>, UpsertWhere(row, <<"name">>)))
    \/ \E t \in Tasks : TaskUpsertUpdates(t)
    \/ \E t \in Tasks, id \in FreshIds("t") : TaskUpsertInserts(t, id)
    \/ \E t \in Tasks : AcquireLock(t)
    \/ \E t \in Tasks : Serialize(t)
    \/ \E t \in Tasks : WriteFile(t)
    \/ \E t \in Tasks : Rename(t)
    \/ \E t \in Tasks : SaveReturns(t)

SpecUpsert == Init /\ [][NextUpsert]_vars

(***************************************************************************)
(* Row writes in flight while the table is dropped                         *)
(***************************************************************************)
(* createTable is called while no row write is in flight: a row write that
   began before the table was created anew would count the rows in the _meta
   it holds, which is no longer the table's. *)
NextDrop ==
    \/ \E t \in Tasks :
          /\ \A u \in Tasks : ~At(u, "setRow")
          /\ TaskCreateTable(t, RowsTable)
    \/ \E t \in Tasks, id \in RowIds :
          TaskSetRowChecks(t, <<"t", id>>, Row2(John, NumV(1)),
                           validateTableData(data, "t", Row2(John, NumV(1))))
    \/ \E t \in Tasks : TaskSetRowStores(t)
    \/ \E t \in Tasks : TaskDropTable(t, "t")
    \/ \E t \in Tasks : AcquireLock(t)
    \/ \E t \in Tasks : Serialize(t)
    \/ \E t \in Tasks : WriteFile(t)
    \/ \E t \in Tasks : Rename(t)
    \/ \E t \in Tasks : SaveReturns(t)

SpecDrop == Init /\ [][NextDrop]_vars

(***************************************************************************)
(* Properties of the path store and the codec, under Spec                  *)
(***************************************************************************)
(* C1. Path idempotence: once set(k, v) has completed, a get(k) that follows
   it at once completes and returns v, same content and same type. *)
C1_PathIdempotence ==
    [][(last.op = "set" /\ last.ok /\ last'.op = "get" /\ last'.keys = last.keys)
          => (last'.ok /\ last'.ret = last.val)]_vars

(* C2. Codec round trip: decryptValue(encryptValue(v)) = v for every value v,
   and null and undefined are never turned into a token. *)
C2_CodecRoundTrip ==
    last.op = "codec"
        => /\ last.ret = last.val
           /\ last.val.type \in {"null", "undefined"} => last.err = "raw"

(* C3. Delete with pruning: delete(key) on an existing path of several
   segments completes and returns true, the path is gone afterwards and no
   empty container is left in the tree. *)
C3_DeletePrunes ==
    [][(last'.op = "delete" /\ last'.val = BoolV(TRUE) /\ Len(last'.keys) > 1
          /\ last'.keys \in DOMAIN data)
          => /\ last'.ok
             /\ last'.ret = BoolV(TRUE)
             /\ last'.keys \notin DOMAIN data'
             /\ \A p \in DOMAIN data' \ {<<>>} :
                   data'[p].kind = "map" => data'[p].keys # <<>>]_vars

(* C4. get never raises: it returns the default when the path leaves the
   tree (a segment is absent, or a prefix holds a leaf), and the decoded leaf
   when the path ends at a leaf. *)
C4_GetNeverRaises ==
    last.op = "get"
        => /\ last.ok
           /\ last.keys \notin DOMAIN data => last.ret = last.val
           /\ (last.keys \in DOMAIN data /\ data[last.keys].kind = "leaf")
                 => last.ret = decryptValue(StoredOf(data[last.keys]))

(***************************************************************************)
(* Properties of the table engine, under SpecTable                         *)
(***************************************************************************)
(* The last call was a set on table.rowId, table being a table. *)
TableRowSet ==
    /\ last.op = "set"
    /\ Len(last.keys) = 2
    /\ last.keys[2] # "_meta"
    /\ MetaKind(data, last.keys[1]) = "meta"

(* C5. Schema closure: a row that a set on table.rowId has accepted is an
   object whose own columns are exactly the declared columns. *)
C5_SchemaClosure ==
    (TableRowSet /\ last.ok)
        => /\ last.val.type = "object"
           /\ DOMAIN last.val.fields = Range(MetaOf(data, last.keys[1]).columns)

(* C6. Per-column rules: a row that a set on table.rowId has accepted
   violates no field of any declared rule set, each field taken by itself:
   the value is neither null nor absent, has the declared type, lies within
   min and max when it is a number, matches the pattern when it is a string,
   and is in the enum. *)
C6_PerColumnRules ==
    (TableRowSet /\ last.ok)
        => \A i \in 1..Len(MetaOf(data, last.keys[1]).validations) :
              LET rules == MetaOf(data, last.keys[1]).validations[i]
                  value == JsRead(last.val, rules.col)
              IN /\ value.type \notin {"null", "undefined"}
                 /\ rules.type # "" => TypeOf(value) = rules.type
                 /\ (value.type = "number" /\ rules.hasMin) => value.num >= rules.min
                 /\ (value.type = "number" /\ rules.hasMax) => value.num <= rules.max
                 /\ (value.type = "string" /\ rules.pattern # "")
                       => RegExpTest(rules.pattern, value.str)
                 /\ rules.hasEnum => Includes(rules.enum, value)

(* C7. Validation order: the error of a rejected row is that of the earliest
   category the row fails: a declared column it lacks, then a column that is
   not declared, then the rules, then the relations. *)
C7_ValidationOrder ==
    (TableRowSet /\ ~last.ok /\ last.val.type = "object")
        => LET meta == MetaOf(data, last.keys[1])
               lacks == \E c \in Range(meta.columns) : c \notin DOMAIN last.val.fields
               unknown == \E f \in DOMAIN last.val.fields : f \notin Range(meta.columns)
               rule == CheckRules(meta.validations, last.val, 1) # ""
           IN /\ lacks => last.err = "Missing required columns"
              /\ (~lacks /\ unknown) => last.err = "Unknown columns"
              /\ (~lacks /\ ~unknown /\ rule)
                    => last.err = CheckRules(meta.validations, last.val, 1)
              /\ (~lacks /\ ~unknown /\ ~rule)
                    => last.err \in {"Related record not found", "TypeError"}

(* C8. Relation integrity at write time: when a set on table.rowId has
   accepted a row, every relation of the table has a target table that holds
   a row whose identifier is the value of the relation's column. *)
C8_RelationIntegrity ==
    (TableRowSet /\ last.ok)
        => \A i \in 1..Len(MetaOf(data, last.keys[1]).relations) :
              LET relation == MetaOf(data, last.keys[1]).relations[i]
                  value == JsRead(last.val, relation.col)
              IN /\ MetaKind(data, relation.table) = "meta"
                 /\ value.type = "string"
                 /\ value.str \in Range(RowKeys(data, relation.table))

(* C9. createTable fails when the name or a column is no identifier, when
   the table exists, when a validation, an index or a relation names a column
   that is not declared, or when the target table or target column of a
   relation does not exist; a createTable that fails leaves the tree as it
   was; one that completes leaves under the name exactly a _meta with the
   declared columns, validations, indexes and relations, rowCount 0, and no
   row. *)
C9_CreateTable ==
    [][last'.op = "createTable"
          => LET name == last'.keys[1]
                 req == last'.req
                 declared == Range(req.columns)
             IN /\ ( \/ ~IdentifierOK(name)
                     \/ \E c \in declared : ~IdentifierOK(c)
                     \/ MetaKind(data, name) = "meta"
                     \/ \E i \in 1..Len(req.validations) : req.validations[i].col \notin declared
                     \/ \E i \in 1..Len(req.indexes) : req.indexes[i] \notin declared
                     \/ \E i \in 1..Len(req.relations) :
                           \/ req.relations[i].col \notin declared
                           \/ MetaKind(data, req.relations[i].table) # "meta"
                           \/ req.relations[i].column
                                 \notin Range(MetaOf(data, req.relations[i].table).columns) )
                      => ~last'.ok
                /\ ~last'.ok => data' = data
                /\ last'.ok
                      => /\ data'[<<name>>] = MapNode(<<"_meta">>)
                         /\ data'[<<name, "_meta">>].kind = "meta"
                         /\ LET meta == MetaOf(data', name)
                            IN /\ Range(meta.columns) = declared
                               /\ Len(meta.columns) = Cardinality(declared)
                               /\ meta.validations = req.validations
                               /\ Range(meta.indexes) = Range(req.indexes)
                               /\ meta.relations = req.relations
                               /\ meta.rowCount = 0]_vars

(* A createTable refused because the table exists, the table holding a row. *)
C9_Witness ==
    /\ last.op = "createTable"
    /\ last.err = "already exists"
    /\ RowKeys(data, last.keys[1]) # <<>>

(***************************************************************************)
(* Properties of the row operations, under SpecRows                        *)
(***************************************************************************)
(* C10. rowCount: after a completed set on table.rowId, insert, insertMany,
   update, upsert, delete or truncate, the table's _meta.rowCount is the
   number of its keys other than _meta. *)
C10_RowCount ==
    ( /\ last.ok
      /\ \/ last.op \in {"insert", "insertMany", "update", "upsert", "delete", "truncate"}
         \/ last.op = "set" /\ Len(last.keys) = 2
      /\ MetaKind(data, last.keys[1]) = "meta" )
        => MetaOf(data, last.keys[1]).rowCount = Len(RowKeys(data, last.keys[1]))

(* An update completed on a table of two rows, and was saved. *)
C10_Witness ==
    /\ last.op = "update"
    /\ last.ok
    /\ Len(RowKeys(data, "t")) = 2
    /\ MetaOf(data, "t").rowCount = 2
    /\ file = data

(* C11. update(table.rowId, updates) is refused, the tree staying as it was,
   when the row does not exist; on an existing row it merges the fields of
   updates that are not undefined into the row as get returns it, validates
   the merged row, and once it has completed the stored row reads back as the
   merged row; a row that an insert has just accepted is accepted again when
   the fields of the update pass their rules. *)
C11_Update ==
    [][(last'.op = "update" /\ MetaKind(data, last'.keys[1]) = "meta")
          => LET keys == last'.keys
                 meta == MetaOf(data, keys[1])
                 given == ObjV([f \in DOMAIN last'.val.fields |-> last'.val.fields[f]])
             IN /\ keys \notin DOMAIN data => (~last'.ok /\ data' = data)
                /\ (keys \in DOMAIN data /\ last'.ok)
                      => DecryptRow(data', keys) = Merge(DecryptRow(data, keys), last'.val)
                /\ (last.op = "insert" /\ last.ok /\ last.keys = keys
                     /\ \A i \in 1..Len(meta.validations) :
                           meta.validations[i].col \in DOMAIN given.fields
                              => CheckRule(meta.validations[i],
                                           given.fields[meta.validations[i].col]) = "")
                      => last'.ok]_vars

(* C12. upsert with unique columns updates the row whose unique columns equal
   those of the data when there is one: of two completed upserts in a row with
   equal values in the unique columns, the second adds no row, and a row of
   the table then holds the fields of the second; with no unique columns an
   upsert that completes adds a row. *)
C12_Upsert ==
    [][(last'.op = "upsert" /\ last'.ok)
          => /\ last'.req.uniqueColumns = <<>>
                   => Len(RowKeys(data', "t")) = Len(RowKeys(data, "t")) + 1
             /\ (last.op = "upsert" /\ last.ok /\ last'.req.uniqueColumns # <<>>
                  /\ last.req = last'.req
                  /\ \A i \in 1..Len(last'.req.uniqueColumns) :
                        JsRead(last.val, last'.req.uniqueColumns[i])
                           = JsRead(last'.val, last'.req.uniqueColumns[i]))
                   => /\ RowKeys(data', "t") = RowKeys(data, "t")
                      /\ \E id \in Range(RowKeys(data', "t")) :
                            \A f \in DOMAIN last'.val.fields :
                               StringOf(JsRead(DecryptRow(data', <<"t", id>>), f))
                                  = StringOf(last'.val.fields[f])]_vars

(* C13. insertMany stops at the first row that is refused and takes nothing
   back: the rows before it are in the table under their identifiers, that
   row and the rows after it are not, and the call has thrown; when no row is
   refused all of them are in the table and the call has completed. *)
C13_InsertManyAbort ==
    [][(last'.op = "insertMany" /\ MetaKind(data, "t") = "meta")
          => LET rows == last'.req.rows
                 ids == last'.req.ids
                 refused == {i \in 1..Len(rows) : validateTableData(data, "t", rows[i]) # ""}
                 first == IF refused = {} THEN Len(rows) + 1
                          ELSE CHOOSE i \in refused : \A j \in refused : i <= j
             IN /\ last'.ok <=> refused = {}
                /\ \A i \in 1..Len(rows) :
                      /\ i < first => /\ <<"t", ids[i]>> \in DOMAIN data'
                                      /\ DecryptRow(data', <<"t", ids[i]>>) = rows[i]
                      /\ i >= first => <<"t", ids[i]>> \notin DOMAIN data'
                /\ \A id \in Range(RowKeys(data, "t")) :
                      /\ <<"t", id>> \in DOMAIN data'
                      /\ DecryptRow(data', <<"t", id>>) = DecryptRow(data, <<"t", id>>)]_vars

(* An insertMany that threw at its second row, the first being in the table. *)
C13_Witness ==
    /\ last.op = "insertMany"
    /\ ~last.ok
    /\ <<"t", last.req.ids[1]>> \in DOMAIN data
    /\ <<"t", last.req.ids[2]>> \notin DOMAIN data
    /\ file # data

(***************************************************************************)
(* Properties of alterTable, under SpecAlter                               *)
(***************************************************************************)
(* C14. alterTable throws when it is to add a column the table declares, and
   when it is to drop a column that the table does not declare and the call
   does not add; when it completes, every dropped column is gone from
   _meta.columns, _meta.validations and _meta.indexes and from every row, and
   the rows keep their other columns with the values they had. *)
C14_AlterTable ==
    [][(last'.op = "alterTable" /\ MetaKind(data, "t") = "meta")
          => LET a == last'.req
                 columns == Range(MetaOf(data, "t").columns)
                 dropped == Range(a.dropColumns)
             IN /\ (\E c \in Range(a.addColumns) : c \in columns) => ~last'.ok
                /\ (\E c \in dropped : c \notin columns \cup Range(a.addColumns))
                      => ~last'.ok
                /\ last'.ok
                      => /\ \A c \in dropped :
                               /\ c \notin Range(MetaOf(data', "t").columns)
                               /\ c \notin Range(MetaOf(data', "t").indexes)
                               /\ \A j \in 1..Len(MetaOf(data', "t").validations) :
                                     MetaOf(data', "t").validations[j].col # c
                               /\ \A id \in Range(RowKeys(data', "t")) :
                                     <<"t", id, c>> \notin DOMAIN data'
                         /\ RowKeys(data', "t") = RowKeys(data, "t")
                         /\ \A id \in Range(RowKeys(data, "t")) :
                               \A f \in Range(KeysAt(data, <<"t", id>>)) \ dropped :
                                  /\ <<"t", id, f>> \in DOMAIN data'
                                  /\ data'[<<"t", id, f>>] = data[<<"t", id, f>>]]_vars

(* An alterTable that dropped the column age has completed on a table of two
   rows, which keep their names, and was saved. *)
C14_Witness ==
    /\ last.op = "alterTable"
    /\ last.ok
    /\ last.req.dropColumns = <<"age">>
    /\ Len(RowKeys(data, "t")) = 2
    /\ \A id \in Range(RowKeys(data, "t")) : KeysAt(data, <<"t", id>>) = <<"name">>
    /\ file = data

(***************************************************************************)
(* Properties of query and orderByMultiple, under SpecQuery                *)
(***************************************************************************)
(* The identifier of a result row, and its place among the table's keys. *)
PlaceOf(tree, tableName, result) ==
    CHOOSE k \in 1..Len(RowKeys(tree, tableName)) :
        RowKeys(tree, tableName)[k] = result.fields["id"].str

(* C15. A query without ordering and pagination returns exactly the rows of
   the table for which every entry of where holds, each as its decrypted
   columns and its id: a direct value holds when the column is strictly
   equal to it; an operator object holds when each of its operators does
   ($eq equal, $ne not equal, $gt greater, $gte greater or equal, $lt less,
   $lte less or equal, $in among, $nin not among). *)
C15_QueryMatching ==
    (last.op = "query" /\ last.ok /\ last.req.orderBy = <<>>
     /\ ~Truthy(last.req.limit) /\ ~Truthy(last.req.offset))
        => LET holds(x, c) ==
                   IF c.type = "object"
                   THEN /\ Has(c, "$eq") => StrictEq(x, c.fields["$eq"])
                        /\ Has(c, "$ne") => ~StrictEq(x, c.fields["$ne"])
                        /\ Has(c, "$gt") => JsLess(c.fields["$gt"], x)
                        /\ Has(c, "$gte") => JsLessEq(c.fields["$gte"], x)
                        /\ Has(c, "$lt") => JsLess(x, c.fields["$lt"])
                        /\ Has(c, "$lte") => JsLessEq(x, c.fields["$lte"])
                        /\ Has(c, "$in") => Includes(c.fields["$in"].fields, x)
                        /\ Has(c, "$nin") => ~Includes(c.fields["$nin"].fields, x)
                   ELSE StrictEq(x, c)
               expected ==
                   SelectSeq(RowKeys(data, "t"),
                             LAMBDA id : \A i \in 1..Len(last.req.where) :
                                holds(JsRead(DecryptRow(data, <<"t", id>>),
                                             last.req.where[i].column),
                                      last.req.where[i].value))
           IN last.ret.fields = ResultRows(data, "t", expected)

(* C16. Pagination: what a query returns is its ordered, filtered sequence
   without the first offset elements, cut to limit elements when a limit is
   given; the sequence is a function of the table and the options alone. *)
C16_Pagination ==
    (last.op = "query" /\ last.ok)
        => LET all == queryResults(data, "t",
                                   QueryOptions(last.req.where, last.req.orderBy, NullV,
                                                NumV(0))).ret.fields
               dropped == SubSeq(all, last.req.offset.num + 1, Len(all))
           IN last.ret.fields
                 = IF last.req.limit.type = "null" THEN dropped
                   ELSE IF last.req.limit.num < Len(dropped)
                   THEN SubSeq(dropped, 1, last.req.limit.num)
                   ELSE dropped

(* C17. Ordering: with orderBy 'c' or 'c asc' no row of the result is
   followed by a row with a smaller c, with 'c desc' by none with a greater
   c, and rows equal in c keep the order of the table; orderByMultiple
   orders by its columns lexicographically, each in its direction, rows equal
   in all of them keeping the order of the table. *)
C17_Ordering ==
    /\ (last.op = "query" /\ last.ok /\ last.req.orderBy # <<>>)
          => LET R == last.ret.fields
                 c == last.req.orderBy[1]
                 desc == Len(last.req.orderBy) > 1 /\ last.req.orderBy[2] = "desc"
             IN \A i, j \in 1..Len(R) :
                   i < j
                      => /\ IF desc THEN ~JsLess(JsRead(R[i], c), JsRead(R[j], c))
                            ELSE ~JsLess(JsRead(R[j], c), JsRead(R[i], c))
                         /\ JsRead(R[i], c) = JsRead(R[j], c)
                               => PlaceOf(data, "t", R[i]) < PlaceOf(data, "t", R[j])
    /\ (last.op = "orderByMultiple" /\ last.ok)
          => LET R == last.ret.fields
                 cs == last.req.columns
                 before(a, b, k) ==
                     IF cs[k].direction = "asc"
                     THEN JsLess(JsRead(a, cs[k].column), JsRead(b, cs[k].column))
                     ELSE JsLess(JsRead(b, cs[k].column), JsRead(a, cs[k].column))
                 same(a, b, k) == JsRead(a, cs[k].column) = JsRead(b, cs[k].column)
             IN \A i, j \in 1..Len(R) :
                   i < j
                      => \/ \E k \in 1..Len(cs) :
                               /\ before(R[i], R[j], k)
                               /\ \A m \in 1..(k - 1) : same(R[i], R[j], m)
                         \/ /\ \A k \in 1..Len(cs) : same(R[i], R[j], k)
                            /\ PlaceOf(data, "t", R[i]) < PlaceOf(data, "t", R[j])

(* A query ordered by age desc has returned three rows, two of them of the
   same age, in an order other than the table's. *)
C17_Witness ==
    /\ last.op = "query"
    /\ last.ok
    /\ last.req.orderBy = <<"age", "desc">>
    /\ Len(last.ret.fields) = 3
    /\ \E i, j \in 1..3 : i # j /\ JsRead(last.ret.fields[i], "age") = JsRead(last.ret.fields[j], "age")
    /\ last.ret.fields # ResultRows(data, "t", RowKeys(data, "t"))

(***************************************************************************)
(* Properties of groupBy, under SpecGroup                                  *)
(***************************************************************************)
(* C18. groupBy without having returns one group for each combination of
   values that the rows found have in the grouping columns: every row agrees
   with exactly one group on every grouping column, every group with some
   row; count is the number of rows that agree with the group, and for every
   other column that holds numbers sum, min and max are those of these
   rows, avg their sum over their number. *)
C18_GroupBy ==
    (last.op = "groupBy" /\ last.ok /\ ~last.req.having.given)
        => LET G == last.ret.fields
               cs == Range(last.req.columns)
               found == queryResults(data, "t",
                                     QueryOptions(last.req.where, <<>>, NullV,
                                                  NumV(0))).ret.fields
               agree(group, row) == \A c \in cs : JsRead(group, c) = JsRead(row, c)
               members(group) == {i \in 1..Len(found) : agree(group, found[i])}
               ages(group) == {found[i].fields["age"].num : i \in members(group)}
               total(group) ==
                   LET RECURSIVE add(_)
                       add(i) == IF i > Len(found) THEN 0
                                 ELSE (IF i \in members(group)
                                       THEN found[i].fields["age"].num ELSE 0) + add(i + 1)
                   IN add(1)
           IN /\ \A i \in 1..Len(found) :
                    Cardinality({g \in 1..Len(G) : agree(G[g], found[i])}) = 1
              /\ \A g \in 1..Len(G) :
                    /\ members(G[g]) # {}
                    /\ G[g].fields["count"] = NumV(Cardinality(members(G[g])))
                    /\ "age" \notin cs
                          => /\ G[g].fields["sum_age"] = NumV(total(G[g]))
                             /\ G[g].fields["avg_age"]
                                   = AvgV(total(G[g]), Cardinality(members(G[g])))
                             /\ \A a \in ages(G[g]) :
                                   /\ G[g].fields["min_age"].num <= a
                                   /\ G[g].fields["max_age"].num >= a
                             /\ G[g].fields["min_age"].num \in ages(G[g])
                             /\ G[g].fields["max_age"].num \in ages(G[g])

(* C19. having takes the conditions that where takes: groupBy with having
   returns the groups of the same call without having for which every entry
   holds, a direct value by strict equality, an operator object when each of
   $eq, $ne, $gt, $gte, $lt, $lte, $in, $nin it carries holds. *)
C19_Having ==
    (last.op = "groupBy" /\ last.ok /\ last.req.having.given)
        => LET holds(x, c) ==
                   IF c.type = "object"
                   THEN /\ Has(c, "$eq") => StrictEq(x, c.fields["$eq"])
                        /\ Has(c, "$ne") => ~StrictEq(x, c.fields["$ne"])
                        /\ Has(c, "$gt") => JsLess(c.fields["$gt"], x)
                        /\ Has(c, "$gte") => JsLessEq(c.fields["$gte"], x)
                        /\ Has(c, "$lt") => JsLess(x, c.fields["$lt"])
                        /\ Has(c, "$lte") => JsLessEq(x, c.fields["$lte"])
                        /\ Has(c, "$in") => Includes(c.fields["$in"].fields, x)
                        /\ Has(c, "$nin") => ~Includes(c.fields["$nin"].fields, x)
                   ELSE StrictEq(x, c)
               entries == last.req.having.entries
               all == groupBy(data, "t",
                              GroupOptions(last.req.columns, last.req.where,
                                           NoHaving)).ret.fields
           IN last.ret.fields
                 = SelectSeq(all, LAMBDA group :
                                \A i \in 1..Len(entries) :
                                   holds(JsRead(group, entries[i].column), entries[i].value))

(***************************************************************************)
(* Properties of join, under SpecJoin                                      *)
(***************************************************************************)
(* C20. join with select '*': for INNER, LEFT and OUTER the output holds
   exactly one row for every pair of a row of the main table and a row of the
   join table with main[on.from] equal to join[on.to], its markers t_id and
   u_id being the identifiers of the two rows; for LEFT and OUTER it holds
   besides exactly one row for every row of the main table without a match,
   with the marker t_id, the marker u_id null and the columns of the join
   side null; it holds no other row. *)
C20_Join ==
    (last.op = "join" /\ last.ok /\ last.req.select = <<"*">>)
        => LET R == last.ret.fields
               mainIds == Range(RowKeys(data, "t"))
               joinIds == Range(RowKeys(data, "u"))
               paired(m, j) ==
                   StrictEq(JsRead(DecryptRow(data, <<"t", m>>), last.req.from),
                            JsRead(DecryptRow(data, <<"u", j>>), last.req.to))
               pairs == {p \in mainIds \X joinIds : paired(p[1], p[2])}
               unmatched == {m \in mainIds : \A j \in joinIds : ~paired(m, j)}
               outer == last.req.type \in {"LEFT", "OUTER"}
               rowsOf(m, marker) ==
                   {i \in 1..Len(R) : /\ JsRead(R[i], "t_id") = StrV(m)
                                       /\ JsRead(R[i], "u_id") = marker}
           IN /\ \A p \in pairs : Cardinality(rowsOf(p[1], StrV(p[2]))) = 1
              /\ \A m \in unmatched :
                    /\ Cardinality(rowsOf(m, NullV)) = IF outer THEN 1 ELSE 0
                    /\ \A i \in rowsOf(m, NullV), j \in joinIds :
                          \A k \in DOMAIN DecryptRow(data, <<"u", j>>).fields :
                             JsRead(R[i], Prefixed("u", k)) = NullV
              /\ Len(R) = Cardinality(pairs) + IF outer THEN Cardinality(unmatched) ELSE 0

(***************************************************************************)
(* Properties of the set operations, under SpecGroup                       *)
(***************************************************************************)
(* C21. union returns every distinct row of its queries' results once and
   no other row; unionAll returns the results of its queries one after the
   other, duplicates kept; distinct returns one representative for every
   combination of values that the rows found have in the requested columns,
   so that rows differing in the value or the type of a requested column are
   never merged. *)
C21_SetOperations ==
    /\ (last.op \in {"union", "unionAll"} /\ last.ok)
          => LET R == last.ret.fields
                 RECURSIVE combined(_)
                 combined(i) ==
                     IF i > Len(last.req) THEN <<>>
                     ELSE select(data, last.req[i].tableName, last.req[i].columns,
                                 last.req[i].where).ret.fields \o combined(i + 1)
             IN IF last.op = "unionAll" THEN R = combined(1)
                ELSE /\ Range(R) = Range(combined(1))
                     /\ \A i, j \in 1..Len(R) : i # j => R[i] # R[j]
    /\ (last.op = "distinct" /\ last.ok)
          => LET R == last.ret.fields
                 columns == last.req.columns
                 found == queryResults(data, "t",
                                       QueryOptions(last.req.where, <<>>, NullV,
                                                    NumV(0))).ret.fields
             IN /\ Range(R) = {DistinctValue(found[i], columns) : i \in 1..Len(found)}
                /\ \A i, j \in 1..Len(R) : i # j => R[i] # R[j]

(***************************************************************************)
(* Properties of the query operations, under SpecRead                      *)
(***************************************************************************)
QueryOperations ==
    {"query", "select", "findById", "findOne", "findByIds", "count", "exists",
     "findAndCount", "groupBy", "distinct", "aggregate", "join", "union", "unionAll",
     "like", "in", "notIn", "between", "orderByMultiple"}

(* C22. A step of a query operation (query, select, findById, findOne,
   findByIds, count, exists, findAndCount, groupBy, distinct, aggregate,
   join, union, unionAll, like, in, notIn, between, orderByMultiple) leaves
   the tree in memory and the file as they were, whether the call returns or
   throws. *)
C22_QueriesChangeNothing ==
    [][last'.op \in QueryOperations => data' = data /\ file' = file]_vars

(* A join that returned rows of a table in memory and in the file *)
C22_Witness ==
    /\ last.op = "join" /\ last.ok /\ Len(last.ret.fields) > 1
    /\ Len(RowKeys(data, "t")) > 1 /\ file = data

(***************************************************************************)
(* Properties of save, under SpecSave                                      *)
(***************************************************************************)
(* The calls between the acquiring and the releasing of the gate *)
InSave == {t \in Tasks : tasks[t].pc \in {"serialize", "writeFile", "rename", "releaseLock"}}

(* C23. At most one save in flight is between acquiring and releasing the
   gate, and the gate is taken while one is; so no two saves write the
   temporary file or rename it at once. *)
C23_MutualExclusion ==
    /\ Cardinality(InSave) <= 1
    /\ InSave # {} => fileLock

(* A save is writing the temporary file while another waits at the gate. *)
C23_Witness ==
    \E t, u \in Tasks : At(t, "writeFile") /\ At(u, "acquireLock") /\ fileLock

(* C24. At every point, with saves overlapping and after a failure of any
   step, the database file holds the whole serialization of a tree that
   this.data has been, the empty tree of the start included; a part of a
   content is only ever in the temporary file. *)
C24_AtomicSave ==
    /\ file # Torn
    /\ file \in had

(* After a failed write left a part in the temporary file, a later save has
   replaced the database file with a tree that is no longer the one in
   memory. *)
C24_Witness ==
    /\ tempFile.state = "partial" /\ \A t \in Tasks : ~At(t, "writeFile")
    /\ file # EmptyTree /\ file # data

(***************************************************************************)
(* Properties of the calls made after construction, under SpecConstructed  *)
(***************************************************************************)
(* C25. No call reads or changes the tree before the load of the
   constructor has ended; so a clear() made right after construction is not
   undone by the load: once it and every other call have returned, with the
   load done, the tree is empty. *)
C25_InitializationBarrier ==
    /\ last.op \in {"set", "get", "clear", "dropTable", "keys"} => last.req.loaded
    /\ (last.op = "clear" /\ initialized /\ \A t \in Tasks : At(t, "idle"))
          => data = EmptyTree

(***************************************************************************)
(* Properties of backup and cleanOldBackups, under SpecBackup              *)
(***************************************************************************)
(* The times of the backups whose file has been made *)
Made ==
    {n \in FirstStamp..(now - 1) :
        \A t \in Tasks : ~(At(t, "backupWrite") /\ tasks[t].stamp = Stamp(n))}

(* C26. Once n backups with distinct timestamps have completed, the backups
   directory holds min(n, maxBackups) files of the active format, those of
   the newest backups; no prune deletes one of the newest maxBackups, of
   the files made so far; and pruning again changes nothing. *)
C26_Retention ==
    /\ (\A t \in Tasks : At(t, "idle"))
          => OfFormat(backups)
                = {BackupName(Stamp(n), fileFormat) :
                      n \in {m \in FirstStamp..(now - 1) : m + maxBackups >= now}}
    /\ \A n \in Made :
          Cardinality({m \in Made : m > n}) < maxBackups
             => BackupName(Stamp(n), fileFormat) \in DOMAIN backups
    /\ cleanOldBackups(cleanOldBackups(backups)) = cleanOldBackups(backups)

(* Four backups have completed, the last two across the change from one
   digit to two, and two files are left. *)
C26_Witness ==
    /\ now = FirstStamp + 4 /\ \A t \in Tasks : At(t, "idle")
    /\ Cardinality(DOMAIN backups) = maxBackups
    /\ last.op = "backup"

(***************************************************************************)
(* Properties of restoreFromBackup, under SpecRestore                      *)
(***************************************************************************)
(* C27. After a backup, a clear and a restore of that backup, every path of
   the tree the backup was made of reads as it did, and every table of that
   tree is a table again, with the same rows. *)
C27_BackupRestore ==
    (last.op = "restoreFromBackup" /\ last.ok /\ last.req.before = EmptyTree)
       => /\ \A p \in DOMAIN last.req.of \ {<<>>} :
                get(data, p, NullV) = [get(last.req.of, p, NullV) EXCEPT !.tree = data]
          /\ \A p \in DOMAIN last.req.of :
                Len(p) = 1 /\ MetaKind(last.req.of, p[1]) # "none"
                   => /\ MetaKind(data, p[1]) # "none"
                      /\ getTable(data, p[1]).ret = getTable(last.req.of, p[1]).ret

(* C28. restoreFromBackup throws for a backup whose extension is not that
   of the active format and leaves the tree as it was; a restore that is
   accepted merges: what lies under a top-level key that the backup does not
   have stays, and every key of the backup holds the backup's value, encoded
   as set encodes it. *)
C28_RestoreMerges ==
    last.op = "restoreFromBackup"
       => /\ last.req.backupPath.ext # fileFormat => ~last.ok /\ data = last.req.before
          /\ last.ok
                => LET backup == backups[last.req.backupPath].content
                   IN /\ \A p \in DOMAIN last.req.before :
                            p # <<>> /\ p[1] \notin Range(backup.keys)
                               => p \in DOMAIN data /\ data[p] = last.req.before[p]
                      /\ \A k \in Range(backup.keys) :
                            /\ <<k>> \in DOMAIN data
                            /\ data[<<k>>] = LeafNode(encryptValue(JsonValue(backup.values[k])))
                      /\ Range(data[<<>>].keys)
                            = Range(last.req.before[<<>>].keys) \cup Range(backup.keys)

(* A restore onto a tree that holds a key the backup lacks and a key the
   backup has with another value *)
C28_Witness ==
    /\ last.op = "restoreFromBackup" /\ last.ok
    /\ \E p \in DOMAIN last.req.before :
          p # <<>> /\ p[1] \notin Range(backups[last.req.backupPath].content.keys)
    /\ \E k \in Range(backups[last.req.backupPath].content.keys) :
          <<k>> \in DOMAIN last.req.before /\ last.req.before[<<k>>] # data[<<k>>]

(***************************************************************************)
(* Properties of the codec with failing steps, under SpecCodec             *)
(***************************************************************************)
(* C29. When a step inside encryptValue or decryptValue fails, the call
   returns its input as it was and throws nothing, whatever the value and
   with debug on or off; so get of a leaf that is no token returns the
   leaf. *)
C29_SoftFail ==
    (last.op \in {"encryptValue", "decryptValue", "get"} /\ last.req.failed)
       => last.ok /\ last.ret = last.req.input

(***************************************************************************)
(* Properties of save and load, under SpecPersist                          *)
(***************************************************************************)
(* C30. For the json format the tree that load yields after a save is the
   tree that was saved; a file that is absent or empty loads as the empty
   tree; for the sql format load yields the empty tree whatever was
   saved. *)
C30_RoundTrip ==
    last.op = "load"
       => /\ last.req.content \in {"absent", "empty"} => data = EmptyTree
          /\ (last.req.content = "saved" /\ last.keys = <<"sql">>) => data = EmptyTree
          /\ (last.req.content = "saved" /\ last.keys = <<"json">>) => data = last.req.saved

(***************************************************************************)
(* Failed row writes, under SpecRows                                       *)
(***************************************************************************)
RowWrite ==
    \/ last'.op \in {"insert", "update", "upsert"}
    \/ /\ last'.op = "set"
       /\ Len(last'.keys) = 2
       /\ MetaKind(data, last'.keys[1]) # "none"

(* C31. When set on table.rowId, insert, update or upsert throws, the tree
   in memory is the tree before the call, rows and rowCount included, and
   the file is the file before the call: nothing was saved. *)
C31_FailedWriteChangesNothing ==
    [][(RowWrite /\ ~last'.ok) => (data' = data /\ file' = file)]_vars

(* A set on a row of a table that holds a row was refused by a rule. *)
C31_Witness ==
    /\ last.op = "set"
    /\ ~last.ok
    /\ Len(last.keys) = 2
    /\ MetaKind(data, "t") = "meta"
    /\ RowKeys(data, "t") # <<>>
    /\ file = data

(***************************************************************************)
(* Properties of delete with a where, under SpecDelete                     *)
(***************************************************************************)
(* C32. delete(table, where) and bulkDelete(table, where) on a table
   complete, remove the rows that match where and no other row, leave the
   table's _meta with its schema, and return as deletedCount the number of
   rows that matched. *)
C32_DeleteWhere ==
    [][(last'.op \in {"delete", "bulkDelete"} /\ MetaKind(data, "t") = "meta")
          => LET hit == Range(query(data, <<"t">>, last'.req.where).ids)
             IN /\ last'.ok
                /\ last'.ret = NumV(Cardinality(hit))
                /\ MetaKind(data', "t") = "meta"
                /\ MetaOf(data', "t").columns = MetaOf(data, "t").columns
                /\ MetaOf(data', "t").validations = MetaOf(data, "t").validations
                /\ \A id \in Range(RowKeys(data, "t")) :
                      IF id \in hit THEN <<"t", id>> \notin DOMAIN data'
                      ELSE /\ <<"t", id>> \in DOMAIN data'
                           /\ DecryptRow(data', <<"t", id>>) = DecryptRow(data, <<"t", id>>)]_vars

(***************************************************************************)
(* Invariants of a table's rows and metadata, under SpecAlter              *)
(***************************************************************************)
(* C33. Every stored row of a table has as its keys the columns of the
   table's _meta, no more and no fewer. *)
C33_ClosedRows ==
    MetaKind(data, "t") = "meta"
       => \A id \in Range(RowKeys(data, "t")) :
             Range(KeysAt(data, <<"t", id>>)) = Range(MetaOf(data, "t").columns)

(***************************************************************************)
(* Invariants of a table's metadata, under SpecMeta                        *)
(***************************************************************************)
NoDuplicates(s) == \A i, j \in 1..Len(s) : s[i] = s[j] => i = j

(* C34. In the _meta of every table, each column that has validations, each
   index and each column that has a relation is one of _meta.columns, and
   neither _meta.columns nor _meta.indexes holds an element twice. *)
C34_MetaReferences ==
    \A n \in {"t", "u"} :
       MetaKind(data, n) = "meta"
          => LET meta == MetaOf(data, n)
             IN /\ \A i \in 1..Len(meta.validations) :
                      meta.validations[i].col \in Range(meta.columns)
                /\ Range(meta.indexes) \subseteq Range(meta.columns)
                /\ \A i \in 1..Len(meta.relations) :
                      meta.relations[i].col \in Range(meta.columns)
                /\ NoDuplicates(meta.columns)
                /\ NoDuplicates(meta.indexes)

(***************************************************************************)
(* A failing alterTable, under SpecAlter                                   *)
(***************************************************************************)
(* C35. When alterTable throws, the table's _meta and rows, and with them
   the whole tree, are as they were before the call. *)
C35_AlterAllOrNothing ==
    [][(last'.op = "alterTable" /\ ~last'.ok) => data' = data]_vars

(***************************************************************************)
(* The gate and the progress of saves, under SpecSaveFair                  *)
(***************************************************************************)
(* A call begins: it leaves the idle position. *)
Called == \E t \in Tasks : At(t, "idle") /\ tasks'[t].pc # "idle"

(* C36. The gate is taken only while a save is between acquiring and
   releasing it, a save that failed having released it too; and when from
   some point on no further call begins, every call in flight comes to its
   end: none waits at the gate for ever. *)
C36_GateAndProgress ==
    /\ [](fileLock => InSave # {})
    /\ (<>[][~Called]_vars) => \A t \in Tasks : (~At(t, "idle")) ~> At(t, "idle")

(* A write has failed, its part is in the temporary file, the gate is free
   again and no call is in flight. *)
C36_Witness ==
    /\ tempFile.state = "partial"
    /\ ~fileLock
    /\ \A t \in Tasks : At(t, "idle")

(***************************************************************************)
(* The file when no call is in flight, under SpecQuiesce                   *)
(***************************************************************************)
(* C37. autoSave being on and no step of a save failing, whenever no call
   is in flight the database file holds the serialization of the tree that
   is in memory. *)
C37_DurableAtQuiescence ==
    (\A t \in Tasks : At(t, "idle")) => file = data

(***************************************************************************)
(* Read-modify-write calls in flight together, under SpecCounter           *)
(***************************************************************************)
(* C38. Every increment of a key that stores its result has added one to
   the value that the key held when it stored, so that the value stored
   after n increments have completed is the value before them plus n. *)
C38_AtomicReadModifyWrite ==
    [][\A t \in Tasks :
          (At(t, "add") /\ tasks'[t].pc # "add")
             => get(data', <<"a">>, NumV(0)).ret.num
                   = get(data, <<"a">>, NumV(0)).ret.num + tasks[t].value.num]_vars

(***************************************************************************)
(* Upserts in flight together, under SpecUpsert                            *)
(***************************************************************************)
(* C39. Whatever the interleaving of the upserts, no two rows of the table
   agree on the unique column. *)
C39_UpsertUniqueness ==
    MetaKind(data, "t") = "meta"
       => \A id, other \in Range(RowKeys(data, "t")) :
             id # other
                => JsRead(DecryptRow(data, <<"t", id>>), "name")
                      # JsRead(DecryptRow(data, <<"t", other>>), "name")

(***************************************************************************)
(* A dropped table, under SpecDrop                                         *)
(***************************************************************************)
(* C40. A table that is not in the tree comes into it by a createTable
   only: after dropTable has removed it, a row write that had passed its
   check of the table before the drop does not bring it back. *)
C40_DropIsFinal ==
    [][(<<"t">> \notin DOMAIN data /\ <<"t">> \in DOMAIN data')
          => last'.op = "createTable"]_vars

====
